---- MODULE Spec2Model ----
(***************************************************************************)
(* Math Chompers: grid generation, Muncher / Troggle movement, eating and  *)
(* the session state machine of the classic and the level mode.            *)
(*                                                                         *)
(* `state` is the live GameState of the session being played: the React    *)
(* atom `state` in a classic session and the atom `levelGameState` in a    *)
(* level session (`appMode` tells which).  Both are records of one shape:  *)
(* a classic state carries currentLevel = 0 (the field is absent in the    *)
(* source, which tests it with 'currentLevel' in state) and the level-only *)
(* fields at their start values.                                            *)
(*                                                                         *)
(* A session runs two setInterval timers of the same one-second period,    *)
(* armed in the same commit, the countdown effect before the Troggle       *)
(* effect: their callbacks alternate, and `due` is the one that fires      *)
(* next.                                                                   *)
(*                                                                         *)
(* Math.random() is a draw u in 0..Resolution-1 standing for the number    *)
(* u / Resolution of [0, 1).                                               *)
(***************************************************************************)
EXTENDS Integers, Sequences, FiniteSets, TLC

VARIABLES appMode, state, due, gen

vars == <<appMode, state, due, gen>>

(***************************************************************************)
(* Bounds of the model.                                                    *)
(***************************************************************************)
\* Grids are MaxRows x MaxCols (the source plays 5x6 in classic mode and
\* 4x5 .. 6x7 in its levels).
MaxRows == 3
MaxCols == 3
\* A session's countdown starts from at most MaxTime seconds.
MaxTime == 2
\* Math.random() takes the values u / Resolution, u in 0..Resolution-1.
Resolution == 60
\* Number of evenly spaced draws tried where a handler draws a number.
NumSamples == 4
\* Number of draw streams a session start is generated from.
NumSeeds == 1

Min2(a, b) == IF a < b THEN a ELSE b
Max2(a, b) == IF a > b THEN a ELSE b
Abs(a) == IF a < 0 THEN 0 - a ELSE a

Draws == 0..(Resolution - 1)
Samples == {(i * Resolution) \div NumSamples : i \in 0..(NumSamples - 1)}

\* The i-th draw of call site `site` in the draw stream rnd.  A stream may
\* list the draws of getAlternativeTarget (site 1) one by one.
U(rnd, site, i) ==
  IF site = 1 /\ "retry" \in DOMAIN rnd THEN rnd.retry[i + 1]
  ELSE (rnd.seed * 13 + site * 17 + i * 7) % Resolution

\* gameUtils.ts randInt: Math.floor(Math.random() * (max - min + 1)) + min
RandInt(min, max, u) == ((u * (max - min + 1)) \div Resolution) + min

\* Math.random() < 0.5
LessThanHalf(u) == 2 * u < Resolution

(***************************************************************************)
(* Cell values.  A number n is Num(n); the strings `${a}+${b}` and         *)
(* `${a}-${b}` are Add(a, b) and Sub(a, b): typeof value === 'string' is    *)
(* k # "num", value.includes('+') is k = "add", and                         *)
(* value.split('+').map(Number) gives back <<a, b>> (a, b >= 0).           *)
(***************************************************************************)
Num(n) == [k |-> "num", a |-> n, b |-> 0]
Add(a, b) == [k |-> "add", a |-> a, b |-> b]
Sub(a, b) == [k |-> "sub", a |-> a, b |-> b]

RULES == <<"multiples", "factors", "primes", "addition", "subtraction", "mixed">>

isPrime(n) ==
  IF n < 2 THEN FALSE
  ELSE \A i \in 2..n : (i * i <= n) => (n % i # 0)

InSeq(s, v) == \E j \in 1..Len(s) : s[j] = v

RECURSIVE FlattenSeqs(_)
FlattenSeqs(ss) ==
  IF Len(ss) = 0 THEN <<>> ELSE Head(ss) \o FlattenSeqs(Tail(ss))

\* The values of lo..hi that are in kept, in ascending order.
FilterRange(lo, hi, kept) ==
  FlattenSeqs([j \in 1..Max2(0, hi - lo + 1) |->
                 IF (lo + j - 1) \in kept THEN <<lo + j - 1>> ELSE <<>>])

(***************************************************************************)
(* Rule evaluation.  The source holds the same switch several times; each  *)
(* copy is modelled where it is used.                                      *)
(***************************************************************************)
\* The "double-check" switch of the eat handlers (with the mixed case).
IsActuallyCorrect(value, rule, targetNumber) ==
  CASE rule = "multiples" ->
         value.k = "num" /\ targetNumber > 0 /\ value.a % targetNumber = 0
    [] rule = "factors" ->
         value.k = "num" /\ targetNumber > 0 /\ value.a > 0
           /\ targetNumber % value.a = 0
    [] rule = "primes" -> value.k = "num" /\ isPrime(value.a)
    [] rule = "addition" ->
         value.k = "add" /\ value.a + value.b = targetNumber
    [] rule = "subtraction" ->
         value.k = "sub" /\ value.a - value.b = targetNumber
    [] rule = "mixed" ->
         \/ value.k = "add" /\ value.a + value.b = targetNumber
         \/ value.k = "sub" /\ value.a - value.b = targetNumber
    [] OTHER -> FALSE

\* isCorrectValue of generateIncorrectValues (no mixed case: default false).
isCorrectValue(value, rule, targetNumber) ==
  CASE rule = "multiples" ->
         value.k = "num" /\ targetNumber > 0 /\ value.a % targetNumber = 0
    [] rule = "factors" ->
         value.k = "num" /\ targetNumber > 0 /\ value.a > 0
           /\ targetNumber % value.a = 0
    [] rule = "primes" -> value.k = "num" /\ isPrime(value.a)
    [] rule = "addition" ->
         value.k = "add" /\ value.a + value.b = targetNumber
    [] rule = "subtraction" ->
         value.k = "sub" /\ value.a - value.b = targetNumber
    [] OTHER -> FALSE

\* shouldBeTarget of generateGrid's final validation (no mixed case).
shouldBeTarget(value, rule, targetNumber) ==
  CASE rule = "multiples" ->
         value.k = "num" /\ targetNumber > 0 /\ value.a % targetNumber = 0
    [] rule = "factors" ->
         value.k = "num" /\ targetNumber > 0 /\ value.a > 0
           /\ targetNumber % value.a = 0
    [] rule = "primes" -> value.k = "num" /\ isPrime(value.a)
    [] rule = "addition" ->
         value.k = "add" /\ value.a + value.b = targetNumber
    [] rule = "subtraction" ->
         value.k = "sub" /\ value.a - value.b = targetNumber
    [] OTHER -> FALSE

(***************************************************************************)
(* generateCorrectValues                                                   *)
(***************************************************************************)
AdditionPairs(a, targetNumber) ==
  LET b == targetNumber - a
  IN IF b >= 0 /\ b <= 20
     THEN IF a # b THEN <<Add(a, b), Add(b, a)>> ELSE <<Add(a, b)>>
     ELSE <<>>

generateCorrectValues(rule, targetNumber) ==
  CASE rule = "multiples" ->
         IF targetNumber > 0
         THEN LET keep(i) == targetNumber * i >= 2 /\ targetNumber * i <= 50
                  is == FilterRange(1, 25, {x \in 1..(25) : keep(x)})
              IN [j \in 1..Len(is) |-> Num(targetNumber * is[j])]
         ELSE <<>>
    [] rule = "factors" ->
         IF targetNumber > 0
         THEN LET keep(i) == targetNumber % i = 0
                  is == FilterRange(1, targetNumber, {x \in 1..(targetNumber) : keep(x)})
              IN [j \in 1..Len(is) |-> Num(is[j])]
         ELSE <<>>
    [] rule = "primes" ->
         LET is == FilterRange(2, 50, {x \in 2..(50) : isPrime(x)})
         IN [j \in 1..Len(is) |-> Num(is[j])]
    [] rule = "addition" ->
         FlattenSeqs([j \in 1..Max2(0, targetNumber + 1) |->
                        AdditionPairs(j - 1, targetNumber)])
    [] rule = "subtraction" ->
         LET keep(b) == b + targetNumber >= b /\ b + targetNumber <= 30
             bs == FilterRange(0, 20, {x \in 0..(20) : keep(x)})
         IN [j \in 1..Len(bs) |-> Sub(bs[j] + targetNumber, bs[j])]
    [] OTHER -> <<>>

(***************************************************************************)
(* generateIncorrectValues                                                 *)
(***************************************************************************)
\* The candidate the main loop draws in its iteration `attempts`.
IncorrectCandidate(rule, rnd, attempts) ==
  CASE rule \in {"multiples", "factors", "primes"} ->
         Num(RandInt(2, 50, U(rnd, 4, attempts)))
    [] rule = "addition" ->
         Add(RandInt(0, 20, U(rnd, 4, 2 * attempts)),
             RandInt(0, 20, U(rnd, 4, 2 * attempts + 1)))
    [] rule = "subtraction" ->
         LET x == RandInt(0, 30, U(rnd, 4, 2 * attempts))
         IN Sub(x, RandInt(0, Min2(x, 15), U(rnd, 4, 2 * attempts + 1)))
    [] OTHER -> Num(RandInt(2, 50, U(rnd, 4, attempts)))

\* while (values.length < 100 && attempts < 1000).  The draw stream repeats
\* with period Resolution, so iteration attempts + Resolution draws the
\* candidate of iteration attempts again and adds nothing: the loop is run
\* for its first Resolution iterations.
RECURSIVE IncorrectLoop(_, _, _, _, _)
IncorrectLoop(values, attempts, rule, targetNumber, rnd) ==
  IF ~(Len(values) < 100 /\ attempts < Min2(1000, Resolution)) THEN values
  ELSE LET value == IncorrectCandidate(rule, rnd, attempts)
       IN IncorrectLoop(
            IF ~isCorrectValue(value, rule, targetNumber) /\ ~InSeq(values, value)
            THEN Append(values, value) ELSE values,
            attempts + 1, rule, targetNumber, rnd)

\* while (values.length < 100 && fallbackAttempts < 100): plain numbers; run
\* for its first Resolution iterations, as the main loop.
RECURSIVE FallbackLoop(_, _, _, _, _)
FallbackLoop(values, fallbackAttempts, rule, targetNumber, rnd) ==
  IF ~(Len(values) < 100 /\ fallbackAttempts < Min2(100, Resolution)) THEN values
  ELSE LET num == Num(RandInt(2, 50, U(rnd, 5, fallbackAttempts)))
       IN FallbackLoop(
            IF ~isCorrectValue(num, rule, targetNumber) /\ ~InSeq(values, num)
            THEN Append(values, num) ELSE values,
            fallbackAttempts + 1, rule, targetNumber, rnd)

\* for (i = 51; i <= 100 && values.length < 50; i++) push i unless included.
RECURSIVE GuaranteedLoop(_, _)
GuaranteedLoop(values, i) ==
  IF ~(i <= 100 /\ Len(values) < 50) THEN values
  ELSE GuaranteedLoop(
         IF ~InSeq(values, Num(i)) THEN Append(values, Num(i)) ELSE values,
         i + 1)

generateIncorrectValues(rule, targetNumber, rnd) ==
  LET main == IncorrectLoop(<<>>, 0, rule, targetNumber, rnd)
      fall == FallbackLoop(main, 0, rule, targetNumber, rnd)
  IN IF Len(fall) < 20 THEN GuaranteedLoop(fall, 51) ELSE fall

getAlternativeTarget(rule, u) ==
  CASE rule \in {"multiples", "factors"} -> RandInt(6, 12, u)
    [] rule = "primes" -> 0
    [] rule = "addition" -> RandInt(8, 15, u)
    [] rule = "subtraction" -> RandInt(3, 10, u)
    [] OTHER -> RandInt(2, 12, u)

(***************************************************************************)
(* generateGrid.  A grid is the sequence of its rows, each the sequence of *)
(* its cells: the source's grid[r][c] is grid[r + 1][c + 1].               *)
(***************************************************************************)
Cell(value, isTarget) ==
  [value |-> value, isTarget |-> isTarget, hasMuncher |-> FALSE,
   hasTroggle |-> FALSE, revealed |-> FALSE, munchedCorrect |-> FALSE]

\* while (correctPositions.size < numCorrectAnswers) add(randInt(0, total - 1))
RECURSIVE CorrectPositions(_, _, _, _, _)
CorrectPositions(positions, numCorrectAnswers, totalCells, rnd, i) ==
  IF ~(Cardinality(positions) < numCorrectAnswers) THEN positions
  ELSE CorrectPositions(positions \cup {RandInt(0, totalCells - 1, U(rnd, 3, i))},
                        numCorrectAnswers, totalCells, rnd, i + 1)

\* The fallback grid of the primes rule (attempts > 10 and rule = primes).
RECURSIVE FallbackRow(_, _, _, _, _)
FallbackRow(row, r, c, cols, rnd) ==
  IF c >= cols THEN row
  ELSE LET value == RandInt(2, 50, U(rnd, 6, r * cols + c))
           isTarget == isPrime(value)
                         /\ Cardinality({j \in 1..Len(row) : row[j].isTarget}) < 5
       IN FallbackRow(Append(row, Cell(Num(value), isTarget)), r, c + 1, cols, rnd)

FallbackGrid(rows, cols, rnd) ==
  [r \in 1..rows |-> FallbackRow(<<>>, r - 1, 0, cols, rnd)]

\* Steps 5 and 6 of generateGrid: build the cells, then the final validation
\* that fixes any incorrect target marking.
BuildGrid(rows, cols, rule, targetNumber, rnd, correctValues, correctPositions, incorrectValues) ==
  [r \in 1..rows |-> [c \in 1..cols |->
     LET flatIndex == (r - 1) * cols + (c - 1)
         u == U(rnd, 7, flatIndex)
         value == IF flatIndex \in correctPositions
                  THEN correctValues[RandInt(0, Len(correctValues) - 1, u) + 1]
                  ELSE incorrectValues[RandInt(0, Len(incorrectValues) - 1, u) + 1]
     IN Cell(value, shouldBeTarget(value, rule, targetNumber))]]

\* generateGrid that gives up, with no grid, when the correct pool is short.
generateGrid_NoRetry(rows, cols, rule, targetNumber, attempts, rnd) ==
  LET totalCells == rows * cols
      correctValues == generateCorrectValues(rule, targetNumber)
      maxCorrect == Min2(8, Min2(Len(correctValues), totalCells - 2))
      numCorrectAnswers == Max2(3, RandInt(3, maxCorrect, U(rnd, 0, 0)))
  IN IF Len(correctValues) < 3 THEN <<>>
     ELSE BuildGrid(rows, cols, rule, targetNumber, rnd, correctValues,
                    CorrectPositions({}, numCorrectAnswers, totalCells, rnd, 0),
                    generateIncorrectValues(rule, targetNumber, rnd))

\* generateGrid that falls back to the primes rule one attempt earlier.
RECURSIVE generateGrid_OneAttemptLess(_, _, _, _, _, _)
generateGrid_OneAttemptLess(rows, cols, rule, targetNumber, attempts, rnd) ==
  LET totalCells == rows * cols
      correctValues == generateCorrectValues(rule, targetNumber)
      maxCorrect == Min2(8, Min2(Len(correctValues), totalCells - 2))
      numCorrectAnswers == Max2(3, RandInt(3, maxCorrect, U(rnd, 0, 0)))
  IN IF attempts > 9
     THEN IF rule # "primes"
          THEN generateGrid_OneAttemptLess(rows, cols, "primes", 0, 0, rnd)
          ELSE FallbackGrid(rows, cols, rnd)
     ELSE IF Len(correctValues) < 3
     THEN generateGrid_OneAttemptLess(
            rows, cols, rule, getAlternativeTarget(rule, U(rnd, 1, attempts)),
            attempts + 1, rnd)
     ELSE BuildGrid(rows, cols, rule, targetNumber, rnd, correctValues,
                    CorrectPositions({}, numCorrectAnswers, totalCells, rnd, 0),
                    generateIncorrectValues(rule, targetNumber, rnd))

\* The singleton sets bind each intermediate result once it is computed.
RECURSIVE generateGrid(_, _, _, _, _, _)
generateGrid(rows, cols, rule, targetNumber, attempts, rnd) ==
  LET totalCells == rows * cols
      correctValues == generateCorrectValues(rule, targetNumber)
  IN IF attempts > 10
     THEN IF rule # "primes"
          THEN generateGrid(rows, cols, "primes", 0, 0, rnd)
          ELSE FallbackGrid(rows, cols, rnd)
     ELSE IF Len(correctValues) < 3
     THEN generateGrid(rows, cols, rule,
                       getAlternativeTarget(rule, U(rnd, 1, attempts)),
                       attempts + 1, rnd)
     ELSE
       LET maxCorrect == Min2(8, Min2(Len(correctValues), totalCells - 2))
           numCorrectAnswers == Max2(3, RandInt(3, maxCorrect, U(rnd, 0, 0)))
           grids ==
             {BuildGrid(rows, cols, rule, targetNumber, rnd, cv, cp, iv) :
                cv \in {correctValues},
                cp \in {CorrectPositions({}, numCorrectAnswers, totalCells, rnd, 0)},
                iv \in {generateIncorrectValues(rule, targetNumber, rnd)}}
       IN CHOOSE grid \in grids : TRUE

(***************************************************************************)
(* Positions are the source's 0-based {row, col}.  The display-only cell   *)
(* field troggleType, the hint timer that reveals a target after ten idle  *)
(* seconds and the sounds are outside the model; no handler reads them.    *)
(***************************************************************************)
Pos(row, col) == [row |-> row, col |-> col]

CellAt(grid, pos) == grid[pos.row + 1][pos.col + 1]

\* grid.flat()
Flat(grid) == FlattenSeqs(grid)

\* gameUtils.ts getRandomEmptyPosition
\* getRandomEmptyPosition that does not look at who is on a cell.
getRandomEmptyPosition_AnyCell(grid, u) ==
  LET cols == Len(grid[1])
      i == RandInt(0, Len(grid) * cols - 1, u)
  IN Pos(i \div cols, i % cols)

getRandomEmptyPosition(grid, u) ==
  LET cols == Len(grid[1])
      keep(i) == LET cell == grid[(i \div cols) + 1][(i % cols) + 1]
                 IN ~cell.hasMuncher /\ ~cell.hasTroggle
      empty == FilterRange(0, Len(grid) * cols - 1, {x \in 0..(Len(grid) * cols - 1) : keep(x)})
  IN IF Len(empty) = 0 THEN Pos(0, 0)
     ELSE LET i == empty[RandInt(0, Len(empty) - 1, u) + 1]
          IN Pos(i \div cols, i % cols)

(***************************************************************************)
(* Classic mode: getInitialState.  ROWS x COLS is played on the bounded    *)
(* grid and the 60 second countdown on the bounded clock.                  *)
(***************************************************************************)
ROWS == 5
COLS == 6

NoSession == [finalScore |-> 0, accuracy |-> 100, starsEarned |-> 0,
              objectivesCompleted |-> <<>>, mistakes |-> 0,
              timeRemaining |-> 0]

getInitialState(score, puzzlesSolved, uRule, rnd) ==
  LET rule == RULES[RandInt(0, Len(RULES) - 1, uRule) + 1]
      uTarget == U(rnd, 8, 0)
      numbersWithManyFactors == <<12, 18, 20, 24, 30, 36>>
      targetNumber ==
        CASE rule = "primes" -> 0
          [] rule = "addition" -> RandInt(5, 20, uTarget)
          [] rule = "subtraction" -> RandInt(0, 15, uTarget)
          [] rule = "mixed" -> RandInt(5, 15, uTarget)
          [] rule = "factors" ->
               numbersWithManyFactors[
                 RandInt(0, Len(numbersWithManyFactors) - 1, uTarget) + 1]
          [] OTHER -> RandInt(2, 12, uTarget)
      rows == Min2(ROWS, MaxRows)
      cols == Min2(COLS, MaxCols)
      grid0 == generateGrid(rows, cols, rule, targetNumber, 0, rnd)
      corners == <<Pos(0, 0), Pos(0, cols - 1),
                   Pos(rows - 1, 0), Pos(rows - 1, cols - 1)>>
      muncherCornerIndex == RandInt(0, 3, U(rnd, 8, 1))
      muncher == corners[muncherCornerIndex + 1]
      troggleCornerIndex == 3 - muncherCornerIndex
      troggles == <<corners[troggleCornerIndex + 1]>>
      grid1 == [grid0 EXCEPT ![muncher.row + 1][muncher.col + 1].hasMuncher = TRUE]
      grid == [grid1 EXCEPT
                 ![troggles[1].row + 1][troggles[1].col + 1].hasTroggle = TRUE]
  IN [grid |-> grid, muncher |-> muncher, troggles |-> troggles,
      rule |-> rule, targetNumber |-> targetNumber, score |-> score,
      gameOver |-> FALSE, incorrectGuesses |-> 0, gameWon |-> FALSE,
      timeLeft |-> Min2(60, MaxTime), puzzlesSolved |-> puzzlesSolved,
      currentLevel |-> 0, session |-> NoSession,
      completedObjectives |-> <<>>, accuracy |-> 100, currentStreak |-> 0]

(***************************************************************************)
(* Level mode: the catalogue.  Levels 1 and 9 are the source's (one        *)
(* standard Troggle; a standard and a smart one).  Levels 11, 12 and 13    *)
(* are entries of the same shape with one Troggle of each remaining kind:  *)
(* blocker and hunter, which no shipped level uses yet, and speed.  The    *)
(* catalogue holds the source's numbers; a session is played on a grid of  *)
(* at most MaxRows x MaxCols with a clock of at most MaxTime seconds.      *)
(***************************************************************************)
Objective(id, type, condition, target, points) ==
  [id |-> id, type |-> type, condition |-> condition, target |-> target,
   points |-> points]

Level(id, category, rows, cols, timeLimit, rule, targetNumber, enemyCount, enemyTypes, difficultyModifiers, objectives) ==
  [id |-> id, category |-> category,
   parameters |-> [rows |-> rows, cols |-> cols,
                   timeLimit |-> timeLimit, rule |-> rule,
                   targetNumber |-> targetNumber, enemyCount |-> enemyCount,
                   enemyTypes |-> enemyTypes,
                   difficultyModifiers |-> difficultyModifiers],
   objectives |-> objectives]

LevelIds == {1, 9, 11, 12, 13}

\* The levels of the catalogue: the selectable ones, shipped levels 4 and 7,
\* which the scoring functions are applied to, and an entry of the same
\* shape with two hunters.
CatalogIds == LevelIds \cup {4, 7, 14}

LEVELS ==
  [id \in CatalogIds |->
     CASE id = 1 ->
            Level(1, "tutorial", 4, 5, 90, "multiples", 2, 1, <<"standard">>,
                  <<"slowerEnemies">>,
                  <<Objective("complete", "primary", "complete", 0, 50),
                    Objective("no_mistakes", "bonus", "noMistakes", 0, 25)>>)
       [] id = 4 ->
            Level(4, "basic", 5, 6, 60, "factors", 12, 1, <<"standard">>,
                  <<>>,
                  <<Objective("complete", "primary", "complete", 0, 80),
                    Objective("accuracy", "bonus", "accuracy", 80, 40)>>)
       [] id = 7 ->
            Level(7, "basic", 5, 6, 55, "factors", 18, 2,
                  <<"standard", "speed">>, <<"lessTime">>,
                  <<Objective("complete", "primary", "complete", 0, 110),
                    Objective("dodge_master", "bonus", "noMistakes", 0, 55)>>)
       [] id = 9 ->
            Level(9, "intermediate", 5, 6, 60, "addition", 10, 2,
                  <<"standard", "smart">>, <<>>,
                  <<Objective("complete", "primary", "complete", 0, 130),
                    Objective("efficiency", "bonus", "score", 400, 65)>>)
       [] id = 11 ->
            Level(11, "intermediate", 5, 6, 60, "factors", 12, 1,
                  <<"blocker">>, <<>>,
                  <<Objective("complete", "primary", "complete", 0, 130),
                    Objective("accuracy", "bonus", "accuracy", 80, 40)>>)
       [] id = 12 ->
            Level(12, "intermediate", 5, 6, 60, "primes", 0, 1,
                  <<"hunter">>, <<>>,
                  <<Objective("complete", "primary", "complete", 0, 130),
                    Objective("no_mistakes", "bonus", "noMistakes", 0, 25)>>)
       [] id = 13 ->
            Level(13, "basic", 5, 6, 60, "multiples", 7, 1,
                  <<"speed">>, <<>>,
                  <<Objective("complete", "primary", "complete", 0, 90),
                    Objective("speed_bonus", "bonus", "time", 15, 45)>>)
       [] id = 14 ->
            Level(14, "intermediate", 5, 6, 60, "multiples", 3, 2,
                  <<"hunter", "hunter">>, <<>>,
                  <<Objective("complete", "primary", "complete", 0, 130),
                    Objective("no_mistakes", "bonus", "noMistakes", 0, 25)>>)]

\* levels.ts generateLevelParameters: the modifiers that change a parameter.
RECURSIVE ApplyModifiers(_, _)
ApplyModifiers(params, modifiers) ==
  IF Len(modifiers) = 0 THEN params
  ELSE LET modifier == Head(modifiers)
           next == CASE modifier = "extraTime" ->
                          [params EXCEPT !.timeLimit = @ + 15]
                     [] modifier = "lessTime" ->
                          [params EXCEPT !.timeLimit = @ - 10]
                     [] modifier = "moreEnemies" ->
                          [params EXCEPT !.enemyCount = @ + 1]
                     [] OTHER -> params
       IN ApplyModifiers(next, Tail(modifiers))

generateLevelParameters(level) ==
  ApplyModifiers(level.parameters, level.parameters.difficultyModifiers)

\* The Troggle placement loop of initializeLevelGameState.
\* place[1] is the draw that places the Muncher, place[i + 2] the one that
\* places Troggle i.
RECURSIVE PlaceTroggles(_, _, _, _, _)
PlaceTroggles(grid, troggles, i, enemyCount, place) ==
  IF ~(i < enemyCount) THEN [grid |-> grid, troggles |-> troggles]
  ELSE LET trogglePosition == getRandomEmptyPosition(grid, place[i + 2])
       IN PlaceTroggles(
            [grid EXCEPT ![trogglePosition.row + 1][trogglePosition.col + 1]
                           .hasTroggle = TRUE],
            Append(troggles, trogglePosition), i + 1, enemyCount, place)

\* levelGameState.ts initializeLevelGameState, for a level that exists and is
\* unlocked, from the parameters generateLevelParameters returned on.  The
\* new state has no gameWon field, which reads as false.
LevelStart(levelId, params, rnd, place) ==
  LET grid0 == generateGrid(params.rows, params.cols, params.rule,
                            params.targetNumber, 0, rnd)
      muncherPosition == getRandomEmptyPosition(grid0, place[1])
      grid1 == [grid0 EXCEPT ![muncherPosition.row + 1][muncherPosition.col + 1]
                               .hasMuncher = TRUE]
      placed == PlaceTroggles(grid1, <<>>, 0, params.enemyCount, place)
      session == [finalScore |-> 0, accuracy |-> 100, starsEarned |-> 0,
                  objectivesCompleted |-> <<>>, mistakes |-> 0,
                  timeRemaining |-> params.timeLimit]
  IN [grid |-> placed.grid, muncher |-> muncherPosition,
      troggles |-> placed.troggles, rule |-> params.rule,
      targetNumber |-> params.targetNumber, score |-> 0, gameOver |-> FALSE,
      incorrectGuesses |-> 0, gameWon |-> FALSE, timeLeft |-> params.timeLimit,
      puzzlesSolved |-> 0, currentLevel |-> levelId, session |-> session,
      completedObjectives |-> <<>>, accuracy |-> 100, currentStreak |-> 0]

\* The parameters of a session: those of the level, on the bounded grid and
\* the bounded clock.
SessionParameters(levelId) ==
  LET params == generateLevelParameters(LEVELS[levelId])
  IN [params EXCEPT !.rows = Min2(@, MaxRows), !.cols = Min2(@, MaxCols),
                    !.timeLimit = Min2(@, MaxTime)]

\* The draws of the getRandomEmptyPosition calls of a level start.
PlacementDraws(rnd, enemyCount) ==
  [i \in 1..(enemyCount + 1) |-> U(rnd, 9, i - 1)]

initializeLevelGameState(levelId, rnd) ==
  LET params == SessionParameters(levelId)
  IN LevelStart(levelId, params, rnd, PlacementDraws(rnd, params.enemyCount))

(***************************************************************************)
(* The Muncher's handlers.  Each returns the source's result record.       *)
(***************************************************************************)
\* moveMuncherWithSound that leaves the Muncher where it is.
moveMuncherWithSound_Stays(st, dRow, dCol) ==
  [hitTroggle |-> FALSE, nextState |-> st]

\* moveMuncherWithSound that does not clear the flag of the cell vacated.
moveMuncherWithSound_LeavesFlag(st, dRow, dCol) ==
  IF st.gameOver THEN [hitTroggle |-> FALSE, nextState |-> st]
  ELSE
    LET row == st.muncher.row
        col == st.muncher.col
        newRow == Max2(0, Min2(Len(st.grid) - 1, row + dRow))
        newCol == Max2(0, Min2(Len(st.grid[1]) - 1, col + dCol))
    IN IF newRow = row /\ newCol = col
       THEN [hitTroggle |-> FALSE, nextState |-> st]
       ELSE
         LET grid == [st.grid EXCEPT ![newRow + 1][newCol + 1].hasMuncher = TRUE]
             cell == grid[newRow + 1][newCol + 1]
         IN [hitTroggle |-> cell.hasTroggle,
             nextState |-> [st EXCEPT !.grid = grid,
                                      !.muncher = Pos(newRow, newCol),
                                      !.gameOver = cell.hasTroggle]]

moveMuncherWithSound(st, dRow, dCol) ==
  IF st.gameOver THEN [hitTroggle |-> FALSE, nextState |-> st]
  ELSE
    LET row == st.muncher.row
        col == st.muncher.col
        newRow == Max2(0, Min2(Len(st.grid) - 1, row + dRow))
        newCol == Max2(0, Min2(Len(st.grid[1]) - 1, col + dCol))
    IN IF newRow = row /\ newCol = col
       THEN [hitTroggle |-> FALSE, nextState |-> st]
       ELSE
         LET grid0 == [st.grid EXCEPT ![row + 1][col + 1].hasMuncher = FALSE]
             grid == [grid0 EXCEPT ![newRow + 1][newCol + 1].hasMuncher = TRUE]
             cell == grid[newRow + 1][newCol + 1]
         IN IF cell.hasTroggle
            THEN [hitTroggle |-> TRUE,
                  nextState |-> [st EXCEPT !.grid = grid,
                                           !.muncher = Pos(newRow, newCol),
                                           !.gameOver = TRUE]]
            ELSE [hitTroggle |-> FALSE,
                  nextState |-> [st EXCEPT !.grid = grid,
                                           !.muncher = Pos(newRow, newCol)]]

\* TargetsLeft with every in place of some.
TargetsLeft_Every(grid) ==
  \A r \in 1..Len(grid) : \A c \in 1..Len(grid[r]) :
    grid[r][c].isTarget /\ ~grid[r][c].hasMuncher

\* grid.flat().some(cell => cell.isTarget && !cell.hasMuncher)
TargetsLeft(grid) ==
  \E r \in 1..Len(grid) : \E c \in 1..Len(grid[r]) :
    grid[r][c].isTarget /\ ~grid[r][c].hasMuncher

EatResult(didMunch, correct, hitTroggle, nextState) ==
  [didMunch |-> didMunch, correct |-> correct, hitTroggle |-> hitTroggle,
   nextState |-> nextState]

\* muncherEatWithSound without the double-check: the cached flag decides.
muncherEatWithSound_TrustsFlag(st) ==
  IF st.gameOver \/ st.gameWon THEN EatResult(FALSE, FALSE, FALSE, st)
  ELSE
    LET row == st.muncher.row
        col == st.muncher.col
        cell == st.grid[row + 1][col + 1]
    IN IF cell.hasTroggle
       THEN EatResult(FALSE, FALSE, TRUE,
                      [st EXCEPT !.gameOver = TRUE, !.gameWon = FALSE])
       ELSE IF cell.isTarget
       THEN LET grid == [st.grid EXCEPT
                           ![row + 1][col + 1].isTarget = FALSE,
                           ![row + 1][col + 1].revealed = TRUE,
                           ![row + 1][col + 1].munchedCorrect = TRUE]
            IN EatResult(TRUE, TRUE, FALSE,
                         [st EXCEPT !.grid = grid, !.score = st.score + 10,
                                    !.gameWon = ~TargetsLeft(grid)])
       ELSE LET incorrectGuesses == st.incorrectGuesses + 1
            IN IF incorrectGuesses >= 3
               THEN EatResult(TRUE, FALSE, FALSE,
                              [st EXCEPT !.incorrectGuesses = incorrectGuesses,
                                         !.gameOver = TRUE, !.gameWon = FALSE])
               ELSE EatResult(TRUE, FALSE, FALSE,
                              [st EXCEPT !.incorrectGuesses = incorrectGuesses])

\* muncherEatWithSound taking five points for an eat on a non-target cell.
muncherEatWithSound_Penalty(st) ==
  IF st.gameOver \/ st.gameWon THEN EatResult(FALSE, FALSE, FALSE, st)
  ELSE
    LET row == st.muncher.row
        col == st.muncher.col
        cell == st.grid[row + 1][col + 1]
        isActuallyCorrect ==
          IF cell.isTarget
          THEN IsActuallyCorrect(cell.value, st.rule, st.targetNumber)
          ELSE FALSE
    IN IF cell.hasTroggle
       THEN EatResult(FALSE, FALSE, TRUE,
                      [st EXCEPT !.gameOver = TRUE, !.gameWon = FALSE])
       ELSE IF cell.isTarget /\ isActuallyCorrect
       THEN LET grid == [st.grid EXCEPT
                           ![row + 1][col + 1].isTarget = FALSE,
                           ![row + 1][col + 1].revealed = TRUE,
                           ![row + 1][col + 1].munchedCorrect = TRUE]
            IN EatResult(TRUE, TRUE, FALSE,
                         [st EXCEPT !.grid = grid, !.score = st.score + 10,
                                    !.gameWon = ~TargetsLeft(grid)])
       ELSE IF cell.isTarget /\ ~isActuallyCorrect
       THEN LET incorrectGuesses == st.incorrectGuesses + 1
                grid == [st.grid EXCEPT ![row + 1][col + 1].isTarget = FALSE]
            IN IF incorrectGuesses >= 3
               THEN EatResult(TRUE, FALSE, FALSE,
                              [st EXCEPT !.grid = grid,
                                         !.incorrectGuesses = incorrectGuesses,
                                         !.gameOver = TRUE, !.gameWon = FALSE])
               ELSE EatResult(TRUE, FALSE, FALSE,
                              [st EXCEPT !.grid = grid,
                                         !.incorrectGuesses = incorrectGuesses])
       ELSE LET incorrectGuesses == st.incorrectGuesses + 1
            IN IF incorrectGuesses >= 3
               THEN EatResult(TRUE, FALSE, FALSE,
                              [st EXCEPT !.score = st.score - 5,
                                         !.incorrectGuesses = incorrectGuesses,
                                         !.gameOver = TRUE, !.gameWon = FALSE])
               ELSE EatResult(TRUE, FALSE, FALSE,
                              [st EXCEPT !.score = st.score - 5,
                                         !.incorrectGuesses = incorrectGuesses])

\* muncherEatWithSound that leaves a wrong isTarget flag in place.
muncherEatWithSound_KeepsFlag(st) ==
  IF st.gameOver \/ st.gameWon THEN EatResult(FALSE, FALSE, FALSE, st)
  ELSE
    LET row == st.muncher.row
        col == st.muncher.col
        cell == st.grid[row + 1][col + 1]
        isActuallyCorrect ==
          IF cell.isTarget
          THEN IsActuallyCorrect(cell.value, st.rule, st.targetNumber)
          ELSE FALSE
    IN IF cell.hasTroggle
       THEN EatResult(FALSE, FALSE, TRUE,
                      [st EXCEPT !.gameOver = TRUE, !.gameWon = FALSE])
       ELSE IF cell.isTarget /\ isActuallyCorrect
       THEN LET grid == [st.grid EXCEPT
                           ![row + 1][col + 1].isTarget = FALSE,
                           ![row + 1][col + 1].revealed = TRUE,
                           ![row + 1][col + 1].munchedCorrect = TRUE]
            IN EatResult(TRUE, TRUE, FALSE,
                         [st EXCEPT !.grid = grid, !.score = st.score + 10,
                                    !.gameWon = ~TargetsLeft(grid)])
       ELSE LET incorrectGuesses == st.incorrectGuesses + 1
            IN IF incorrectGuesses >= 3
               THEN EatResult(TRUE, FALSE, FALSE,
                              [st EXCEPT !.incorrectGuesses = incorrectGuesses,
                                         !.gameOver = TRUE, !.gameWon = FALSE])
               ELSE EatResult(TRUE, FALSE, FALSE,
                              [st EXCEPT !.incorrectGuesses = incorrectGuesses])

muncherEatWithSound(st) ==
  IF st.gameOver \/ st.gameWon THEN EatResult(FALSE, FALSE, FALSE, st)
  ELSE
    LET row == st.muncher.row
        col == st.muncher.col
        cell == st.grid[row + 1][col + 1]
        isActuallyCorrect ==
          IF cell.isTarget
          THEN IsActuallyCorrect(cell.value, st.rule, st.targetNumber)
          ELSE FALSE
    IN IF cell.hasTroggle
       THEN EatResult(FALSE, FALSE, TRUE,
                      [st EXCEPT !.gameOver = TRUE, !.gameWon = FALSE])
       ELSE IF cell.isTarget /\ isActuallyCorrect
       THEN LET grid == [st.grid EXCEPT
                           ![row + 1][col + 1].isTarget = FALSE,
                           ![row + 1][col + 1].revealed = TRUE,
                           ![row + 1][col + 1].munchedCorrect = TRUE]
            IN EatResult(TRUE, TRUE, FALSE,
                         [st EXCEPT !.grid = grid, !.score = st.score + 10,
                                    !.gameWon = ~TargetsLeft(grid)])
       ELSE IF cell.isTarget /\ ~isActuallyCorrect
       THEN LET incorrectGuesses == st.incorrectGuesses + 1
                grid == [st.grid EXCEPT ![row + 1][col + 1].isTarget = FALSE]
            IN IF incorrectGuesses >= 3
               THEN EatResult(TRUE, FALSE, FALSE,
                              [st EXCEPT !.grid = grid,
                                         !.incorrectGuesses = incorrectGuesses,
                                         !.gameOver = TRUE, !.gameWon = FALSE])
               ELSE EatResult(TRUE, FALSE, FALSE,
                              [st EXCEPT !.grid = grid,
                                         !.incorrectGuesses = incorrectGuesses])
       ELSE LET incorrectGuesses == st.incorrectGuesses + 1
            IN IF incorrectGuesses >= 3
               THEN EatResult(TRUE, FALSE, FALSE,
                              [st EXCEPT !.incorrectGuesses = incorrectGuesses,
                                         !.gameOver = TRUE, !.gameWon = FALSE])
               ELSE EatResult(TRUE, FALSE, FALSE,
                              [st EXCEPT !.incorrectGuesses = incorrectGuesses])

(***************************************************************************)
(* scoring.ts.  Fractions are kept as integers: a difficulty multiplier in *)
(* tenths, the accuracy multiplier in fiftieths.  The floors are those of  *)
(* the double-precision products: 1.2 - 1 is 0.19999999999999996, so the   *)
(* basic bonus falls one short whenever the exact product is a whole       *)
(* number; the other products have the floor of the exact quotient for    *)
(* every time, limit and accuracy a session can show.                      *)
(***************************************************************************)
getLevelById(id) == LEVELS[id]

difficultyMultipliers(category) ==
  CASE category = "tutorial" -> 10
    [] category = "basic" -> 12
    [] category = "intermediate" -> 15
    [] category = "advanced" -> 20
    [] category = "master" -> 30

RECURSIVE ObjectiveBonus(_, _)
ObjectiveBonus(objectives, completedObjectives) ==
  IF Len(completedObjectives) = 0 THEN 0
  ELSE LET objId == Head(completedObjectives)
           found == {j \in 1..Len(objectives) : objectives[j].id = objId}
           points == IF found = {} THEN 0
                     ELSE objectives[CHOOSE j \in found :
                                       \A k \in found : j <= k].points
       IN points + ObjectiveBonus(objectives, Tail(completedObjectives))

calculateLevelScore(baseScore, objectives, completedObjectives, timeRemaining, accuracy, currentStreak, levelId) ==
  LET level == getLevelById(levelId)
      tenths == baseScore * (difficultyMultipliers(level.category) - 10)
      difficultyBonus ==
        IF level.category = "basic" /\ tenths > 0 /\ tenths % 10 = 0
        THEN (tenths \div 10) - 1
        ELSE tenths \div 10
      maxTimeBonus == baseScore \div 2
      timeBonus == (timeRemaining * maxTimeBonus) \div level.parameters.timeLimit
      accuracyMultiplier == Max2(25, Min2(100, accuracy))
      streakBonus == currentStreak * 10
      objectiveBonus == ObjectiveBonus(objectives, completedObjectives)
  IN [basePoints |-> baseScore, timeBonus |-> timeBonus,
      accuracyMultiplier |-> accuracyMultiplier,
      difficultyBonus |-> difficultyBonus, streakBonus |-> streakBonus,
      objectiveBonus |-> objectiveBonus]

getTotalScore(scoring) ==
  LET subtotal == scoring.basePoints + scoring.timeBonus
                    + scoring.difficultyBonus + scoring.streakBonus
                    + scoring.objectiveBonus
  IN (subtotal * scoring.accuracyMultiplier) \div 50

checkObjectiveCompletion(objective, gameState) ==
  CASE objective.condition = "complete" ->
         ~\E r \in 1..Len(gameState.grid) :
            \E c \in 1..Len(gameState.grid[r]) : gameState.grid[r][c].isTarget
    [] objective.condition = "score" -> gameState.score >= objective.target
    [] objective.condition = "time" -> gameState.timeLeft >= objective.target
    [] objective.condition = "accuracy" ->
         gameState.accuracy >= objective.target
    [] objective.condition = "noMistakes" -> gameState.incorrectGuesses = 0
    [] OTHER -> FALSE

\* The loop of updateObjectives without the includes test.
RECURSIVE UpdateObjectivesLoop_NoIncludes(_, _)
UpdateObjectivesLoop_NoIncludes(gameState, objectives) ==
  IF Len(objectives) = 0 THEN gameState
  ELSE LET objective == Head(objectives)
           next ==
             IF checkObjectiveCompletion(objective, gameState)
             THEN [gameState EXCEPT
                     !.completedObjectives = Append(@, objective.id),
                     !.score = @ + objective.points]
             ELSE gameState
       IN UpdateObjectivesLoop_NoIncludes(next, Tail(objectives))

\* The loop of updateObjectives: points are added to the score as it goes.
RECURSIVE UpdateObjectivesLoop(_, _)
UpdateObjectivesLoop(gameState, objectives) ==
  IF Len(objectives) = 0 THEN gameState
  ELSE LET objective == Head(objectives)
           next ==
             IF ~InSeq(gameState.completedObjectives, objective.id)
                  /\ checkObjectiveCompletion(objective, gameState)
             THEN [gameState EXCEPT
                     !.completedObjectives = Append(@, objective.id),
                     !.score = @ + objective.points]
             ELSE gameState
       IN UpdateObjectivesLoop(next, Tail(objectives))

updateObjectives(gameState) ==
  UpdateObjectivesLoop(gameState, getLevelById(gameState.currentLevel).objectives)

getMinimumThreeStarScore(level) ==
  LET primary == {j \in 1..Len(level.objectives) :
                    level.objectives[j].type = "primary"}
      RECURSIVE Sum(_)
      Sum(js) == IF js = {} THEN 0
                 ELSE LET j == CHOOSE j \in js : TRUE
                      IN level.objectives[j].points + Sum(js \ {j})
  IN (Sum(primary) * 3) \div 2

\* calculateLevelStars that grants the third star on the score alone.
calculateLevelStars_ScoreOnly(score, objectives, level) ==
  IF score >= getMinimumThreeStarScore(level) THEN 3
  ELSE IF \E k \in 1..Len(objectives) :
            \E j \in 1..Len(level.objectives) :
              /\ level.objectives[j].type = "bonus"
              /\ level.objectives[j].id = objectives[k]
       THEN 2 ELSE 1

calculateLevelStars(score, objectives, level) ==
  LET bonusObjectives == {j \in 1..Len(level.objectives) :
                            level.objectives[j].type = "bonus"}
      completedBonus ==
        Cardinality({k \in 1..Len(objectives) :
                       \E j \in bonusObjectives :
                         level.objectives[j].id = objectives[k]})
  IN IF completedBonus = Cardinality(bonusObjectives)
          /\ score >= getMinimumThreeStarScore(level)
     THEN 3
     ELSE IF completedBonus >= 1 THEN 2 ELSE 1

\* Math.round((puzzlesSolved / total) * 100)
RoundPercent(puzzlesSolved, total) ==
  (200 * puzzlesSolved + total) \div (2 * total)

\* muncherEatWithScoringAndSound ending the level on the fourth mistake.
muncherEatWithScoringAndSound_FourMistakes(st) ==
  IF st.gameOver \/ st.gameWon THEN EatResult(FALSE, FALSE, FALSE, st)
  ELSE
    LET row == st.muncher.row
        col == st.muncher.col
        cell == st.grid[row + 1][col + 1]
        isActuallyCorrect ==
          IF cell.isTarget
          THEN IsActuallyCorrect(cell.value, st.rule, st.targetNumber)
          ELSE FALSE
    IN IF cell.hasTroggle
       THEN EatResult(FALSE, FALSE, TRUE,
                      [st EXCEPT !.gameOver = TRUE, !.gameWon = FALSE])
       ELSE IF cell.isTarget /\ isActuallyCorrect
       THEN
         LET counted == [st EXCEPT !.currentStreak = @ + 1,
                                   !.puzzlesSolved = @ + 1]
             basePoints == 10
             scoring == calculateLevelScore(
                          basePoints,
                          getLevelById(st.currentLevel).objectives,
                          counted.completedObjectives, counted.timeLeft,
                          counted.accuracy, counted.currentStreak,
                          counted.currentLevel)
             totalScore == getTotalScore(scoring)
             grid == [st.grid EXCEPT
                        ![row + 1][col + 1].isTarget = FALSE,
                        ![row + 1][col + 1].revealed = TRUE,
                        ![row + 1][col + 1].munchedCorrect = TRUE]
             scored == [counted EXCEPT !.score = @ + totalScore, !.grid = grid]
             updated == updateObjectives(scored)
             targetsLeft == TargetsLeft(grid)
         IN EatResult(TRUE, TRUE, FALSE,
                      IF ~targetsLeft THEN [updated EXCEPT !.gameWon = TRUE]
                      ELSE updated)
       ELSE
         LET incorrectGuesses == st.incorrectGuesses + 1
             mistakes == st.session.mistakes + 1
             total == st.puzzlesSolved + mistakes
             accuracy == IF total = 0 THEN 100
                         ELSE RoundPercent(st.puzzlesSolved, total)
             grid == IF cell.isTarget /\ ~isActuallyCorrect
                     THEN [st.grid EXCEPT ![row + 1][col + 1].isTarget = FALSE]
                     ELSE st.grid
             missed == [st EXCEPT !.currentStreak = 0,
                                  !.incorrectGuesses = incorrectGuesses,
                                  !.session.mistakes = mistakes,
                                  !.accuracy = accuracy,
                                  !.grid = grid]
         IN EatResult(TRUE, FALSE, FALSE,
                      IF incorrectGuesses > 3
                      THEN [missed EXCEPT !.gameOver = TRUE, !.gameWon = FALSE]
                      ELSE missed)

muncherEatWithScoringAndSound(st) ==
  IF st.gameOver \/ st.gameWon THEN EatResult(FALSE, FALSE, FALSE, st)
  ELSE
    LET row == st.muncher.row
        col == st.muncher.col
        cell == st.grid[row + 1][col + 1]
        isActuallyCorrect ==
          IF cell.isTarget
          THEN IsActuallyCorrect(cell.value, st.rule, st.targetNumber)
          ELSE FALSE
    IN IF cell.hasTroggle
       THEN EatResult(FALSE, FALSE, TRUE,
                      [st EXCEPT !.gameOver = TRUE, !.gameWon = FALSE])
       ELSE IF cell.isTarget /\ isActuallyCorrect
       THEN
         LET counted == [st EXCEPT !.currentStreak = @ + 1,
                                   !.puzzlesSolved = @ + 1]
             basePoints == 10
             scoring == calculateLevelScore(
                          basePoints,
                          getLevelById(st.currentLevel).objectives,
                          counted.completedObjectives, counted.timeLeft,
                          counted.accuracy, counted.currentStreak,
                          counted.currentLevel)
             totalScore == getTotalScore(scoring)
             grid == [st.grid EXCEPT
                        ![row + 1][col + 1].isTarget = FALSE,
                        ![row + 1][col + 1].revealed = TRUE,
                        ![row + 1][col + 1].munchedCorrect = TRUE]
             scored == [counted EXCEPT !.score = @ + totalScore, !.grid = grid]
             updated == updateObjectives(scored)
             targetsLeft == TargetsLeft(grid)
         IN EatResult(TRUE, TRUE, FALSE,
                      IF ~targetsLeft THEN [updated EXCEPT !.gameWon = TRUE]
                      ELSE updated)
       ELSE
         LET incorrectGuesses == st.incorrectGuesses + 1
             mistakes == st.session.mistakes + 1
             total == st.puzzlesSolved + mistakes
             accuracy == IF total = 0 THEN 100
                         ELSE RoundPercent(st.puzzlesSolved, total)
             grid == IF cell.isTarget /\ ~isActuallyCorrect
                     THEN [st.grid EXCEPT ![row + 1][col + 1].isTarget = FALSE]
                     ELSE st.grid
             missed == [st EXCEPT !.currentStreak = 0,
                                  !.incorrectGuesses = incorrectGuesses,
                                  !.session.mistakes = mistakes,
                                  !.accuracy = accuracy,
                                  !.grid = grid]
         IN EatResult(TRUE, FALSE, FALSE,
                      IF incorrectGuesses >= 3
                      THEN [missed EXCEPT !.gameOver = TRUE, !.gameWon = FALSE]
                      ELSE missed)

\* The spacebar branch of handleKeyDown in level mode: a winning eat also
\* finalises the session record.
LevelSpacebar(prev) ==
  LET result == muncherEatWithScoringAndSound(prev)
      nextState == result.nextState
  IN IF ~result.hitTroggle /\ result.didMunch /\ nextState.gameWon
     THEN [nextState EXCEPT
             !.session.finalScore = nextState.score,
             !.session.starsEarned =
               calculateLevelStars(nextState.score,
                                   nextState.completedObjectives,
                                   getLevelById(nextState.currentLevel))]
     ELSE nextState

(***************************************************************************)
(* enemyAI.ts.  Probabilities and speeds are in hundredths.  A Troggle's   *)
(* step reads at most two draws, d[1] then d[2].                           *)
(***************************************************************************)
createEnemyAI(type, difficultyLevel) ==
  CASE type = "standard" ->
         [type |-> "standard", speed |-> 100,
          intelligence |-> 10 + difficultyLevel * 10,
          aggressiveness |-> 20 + difficultyLevel * 5, coordination |-> FALSE]
    [] type = "speed" ->
         [type |-> "speed", speed |-> 150 + difficultyLevel * 20,
          intelligence |-> 30, aggressiveness |-> 40, coordination |-> FALSE]
    [] type = "smart" ->
         [type |-> "smart", speed |-> 80,
          intelligence |-> 70 + difficultyLevel * 10,
          aggressiveness |-> 60, coordination |-> FALSE]
    [] type = "blocker" ->
         [type |-> "blocker", speed |-> 50, intelligence |-> 40,
          aggressiveness |-> 80, coordination |-> TRUE]
    [] type = "hunter" ->
         [type |-> "hunter", speed |-> 120, intelligence |-> 80,
          aggressiveness |-> 90, coordination |-> TRUE]
    [] OTHER ->
         [type |-> "standard", speed |-> 100,
          intelligence |-> 10 + difficultyLevel * 10,
          aggressiveness |-> 20 + difficultyLevel * 5, coordination |-> FALSE]

getDifficultyLevel(levelId) ==
  IF levelId <= 3 THEN 1
  ELSE IF levelId <= 8 THEN 2
  ELSE IF levelId <= 15 THEN 3
  ELSE IF levelId <= 25 THEN 4
  ELSE 5

\* Math.random() < p / 100
RandomBelow(u, p) == u * 100 < p * Resolution

Dist(a, b) == Abs(a.row - b.row) + Abs(a.col - b.col)

\* moveTowardTarget without the one-direction-per-turn rule.
moveTowardTarget_Diagonal(current, target, maxRows, maxCols, u) ==
  Pos(IF target.row > current.row THEN Min2(maxRows - 1, current.row + 1)
      ELSE IF target.row < current.row THEN Max2(0, current.row - 1)
      ELSE current.row,
      IF target.col > current.col THEN Min2(maxCols - 1, current.col + 1)
      ELSE IF target.col < current.col THEN Max2(0, current.col - 1)
      ELSE current.col)

moveTowardTarget(current, target, maxRows, maxCols, u) ==
  LET row == current.row
      col == current.col
      newRow == IF target.row > row THEN Min2(maxRows - 1, row + 1)
                ELSE IF target.row < row THEN Max2(0, row - 1)
                ELSE row
      newCol == IF target.col > col THEN Min2(maxCols - 1, col + 1)
                ELSE IF target.col < col THEN Max2(0, col - 1)
                ELSE col
  IN IF newRow # row /\ newCol # col
     THEN IF LessThanHalf(u) THEN Pos(newRow, col) ELSE Pos(row, newCol)
     ELSE Pos(newRow, newCol)

Directions == <<Pos(0 - 1, 0), Pos(1, 0), Pos(0, 0 - 1), Pos(0, 1)>>

\* getRandomAdjacentPosition stepping off an edge onto the opposite one.
getRandomAdjacentPosition_Wraps(position, maxRows, maxCols, u) ==
  LET moved == [j \in 1..4 |->
                  Pos((position.row + Directions[j].row + maxRows) % maxRows,
                      (position.col + Directions[j].col + maxCols) % maxCols)]
  IN moved[RandInt(0, 3, u) + 1]

getRandomAdjacentPosition(position, maxRows, maxCols, u) ==
  LET moved == [j \in 1..4 |->
                  Pos(Max2(0, Min2(maxRows - 1, position.row + Directions[j].row)),
                      Max2(0, Min2(maxCols - 1, position.col + Directions[j].col)))]
      validMoves == FlattenSeqs([j \in 1..4 |->
                                   IF moved[j] # position THEN <<moved[j]>>
                                   ELSE <<>>])
  IN IF Len(validMoves) = 0 THEN position
     ELSE validMoves[RandInt(0, Len(validMoves) - 1, u) + 1]

isValidPosition(pos, maxRows, maxCols) ==
  pos.row >= 0 /\ pos.row < maxRows /\ pos.col >= 0 /\ pos.col < maxCols

\* The while loop of findPath with new entries put at the front of the
\* queue: a depth-first search.
RECURSIVE FindPathLoop_DepthFirst(_, _, _, _, _)
FindPathLoop_DepthFirst(queue, visited, end, rows, cols) ==
  IF Len(queue) = 0 THEN <<>>
  ELSE
    LET pos == Head(queue).pos
        path == Head(queue).path
    IN IF pos \in visited
       THEN FindPathLoop_DepthFirst(Tail(queue), visited, end, rows, cols)
       ELSE IF pos = end THEN path
       ELSE
         LET seen == visited \cup {pos}
             pushed == FlattenSeqs([j \in 1..4 |->
                         LET newPos == Pos(pos.row + Directions[j].row,
                                           pos.col + Directions[j].col)
                         IN IF isValidPosition(newPos, rows, cols)
                                 /\ newPos \notin seen
                            THEN <<[pos |-> newPos, path |-> Append(path, newPos)]>>
                            ELSE <<>>])
         IN FindPathLoop_DepthFirst(pushed \o Tail(queue), seen, end, rows, cols)

\* The while loop of findPath: a breadth-first search over the queue.
RECURSIVE FindPathLoop(_, _, _, _, _)
FindPathLoop(queue, visited, end, rows, cols) ==
  IF Len(queue) = 0 THEN <<>>
  ELSE
    LET pos == Head(queue).pos
        path == Head(queue).path
    IN IF pos \in visited
       THEN FindPathLoop(Tail(queue), visited, end, rows, cols)
       ELSE IF pos = end THEN path
       ELSE
         LET seen == visited \cup {pos}
             pushed == FlattenSeqs([j \in 1..4 |->
                         LET newPos == Pos(pos.row + Directions[j].row,
                                           pos.col + Directions[j].col)
                         IN IF isValidPosition(newPos, rows, cols)
                                 /\ newPos \notin seen
                            THEN <<[pos |-> newPos, path |-> Append(path, newPos)]>>
                            ELSE <<>>])
         IN FindPathLoop(Tail(queue) \o pushed, seen, end, rows, cols)

findPath(start, end, grid) ==
  FindPathLoop(<<[pos |-> start, path |-> <<>>]>>, {}, end,
               Len(grid), Len(grid[1]))

\* Array.prototype.sort by distance to `from` (stable: ties keep their order).
RECURSIVE SortByDistance(_, _)
SortByDistance(positions, from) ==
  IF Len(positions) = 0 THEN <<>>
  ELSE LET j == CHOOSE j \in 1..Len(positions) :
                  /\ \A k \in 1..Len(positions) :
                        Dist(positions[j], from) <= Dist(positions[k], from)
                  /\ \A k \in 1..(j - 1) :
                        Dist(positions[k], from) > Dist(positions[j], from)
           rest == [k \in 1..(Len(positions) - 1) |->
                      IF k < j THEN positions[k] ELSE positions[k + 1]]
       IN <<positions[j]>> \o SortByDistance(rest, from)

findNearestTargets(grid, muncher, count) ==
  LET cols == Len(grid[1])
      keep(i) == grid[(i \div cols) + 1][(i % cols) + 1].isTarget
      flat == FilterRange(0, Len(grid) * cols - 1, {x \in 0..(Len(grid) * cols - 1) : keep(x)})
      targets == [j \in 1..Len(flat) |-> Pos(flat[j] \div cols, flat[j] % cols)]
      sorted == SortByDistance(targets, muncher)
  IN SubSeq(sorted, 1, Min2(count, Len(sorted)))

getBlockingPosition(muncher, target, current) ==
  Pos((muncher.row + target.row) \div 2, (muncher.col + target.col) \div 2)

\* Returns <<>> for the source's null and <<position>> otherwise.
calculateSurroundPosition(muncher, current, otherHunters) ==
  LET surroundPositions == <<Pos(muncher.row - 1, muncher.col),
                             Pos(muncher.row + 1, muncher.col),
                             Pos(muncher.row, muncher.col - 1),
                             Pos(muncher.row, muncher.col + 1)>>
      occupied(pos) == \E h \in 1..Len(otherHunters) :
                         otherHunters[h].position = pos
      availablePositions ==
        FlattenSeqs([j \in 1..4 |->
                       IF ~occupied(surroundPositions[j])
                       THEN <<surroundPositions[j]>> ELSE <<>>])
  IN IF Len(availablePositions) > 0
     THEN <<SortByDistance(availablePositions, current)[1]>>
     ELSE <<>>

calculateStandardMove(position, muncher, grid, ai, d) ==
  IF RandomBelow(d[1], ai.intelligence)
  THEN moveTowardTarget(position, muncher, Len(grid), Len(grid[1]), d[2])
  ELSE getRandomAdjacentPosition(position, Len(grid), Len(grid[1]), d[2])

calculateSpeedMove(position, muncher, grid, ai, d) ==
  IF RandomBelow(d[1], ai.aggressiveness)
  THEN moveTowardTarget(position, muncher, Len(grid), Len(grid[1]), d[2])
  ELSE getRandomAdjacentPosition(position, Len(grid), Len(grid[1]), d[2])

calculateSmartMove(position, muncher, grid, ai, troggle, d) ==
  LET path == IF Len(troggle.path) = 0 THEN findPath(position, muncher, grid)
              ELSE troggle.path
  IN IF Len(path) > 0 /\ isValidPosition(path[1], Len(grid), Len(grid[1]))
     THEN path[1]
     ELSE moveTowardTarget(position, muncher, Len(grid), Len(grid[1]), d[1])

calculateBlockerMove(position, muncher, grid, ai, gameState, d) ==
  LET targets == findNearestTargets(gameState.grid, muncher, 3)
  IN IF Len(targets) > 0
     THEN moveTowardTarget(position,
                           getBlockingPosition(muncher, targets[1], position),
                           Len(grid), Len(grid[1]), d[1])
     ELSE moveTowardTarget(position, muncher, Len(grid), Len(grid[1]), d[1])

\* t.position !== position compares object identity: every Troggle of
\* allTroggles but the one moving (troggle.index) is another object.
calculateHunterMove(position, muncher, grid, ai, allTroggles, troggle, d) ==
  LET others == {h \in 1..Len(allTroggles) :
                   /\ allTroggles[h].ai.type = "hunter"
                   /\ allTroggles[h].index # troggle.index}
      otherHunters == FlattenSeqs([h \in 1..Len(allTroggles) |->
                                     IF h \in others THEN <<allTroggles[h]>>
                                     ELSE <<>>])
      surroundPosition ==
        calculateSurroundPosition(muncher, position, otherHunters)
  IN IF Len(otherHunters) > 0 /\ Len(surroundPosition) > 0
     THEN moveTowardTarget(position, surroundPosition[1],
                           Len(grid), Len(grid[1]), d[1])
     ELSE moveTowardTarget(position, muncher, Len(grid), Len(grid[1]), d[1])

calculateNextMove(troggle, gameState, allTroggles, d) ==
  LET position == troggle.position
      ai == troggle.ai
      muncher == gameState.muncher
      grid == gameState.grid
  IN IF troggle.cooldown > 0 THEN position
     ELSE CASE ai.type = "standard" ->
                 calculateStandardMove(position, muncher, grid, ai, d)
            [] ai.type = "speed" ->
                 calculateSpeedMove(position, muncher, grid, ai, d)
            [] ai.type = "smart" ->
                 calculateSmartMove(position, muncher, grid, ai, troggle, d)
            [] ai.type = "blocker" ->
                 calculateBlockerMove(position, muncher, grid, ai, gameState, d)
            [] ai.type = "hunter" ->
                 calculateHunterMove(position, muncher, grid, ai, allTroggles,
                                     troggle, d)
            [] OTHER -> calculateStandardMove(position, muncher, grid, ai, d)

(***************************************************************************)
(* moveTroggles.  draws[i] are the draws the i-th Troggle's step reads.    *)
(***************************************************************************)
\* One iteration of the level-mode loop (i is 0-based, as in the source).
RECURSIVE LevelTroggleLoop(_, _, _, _, _)
LevelTroggleLoop(state0, grid, newTroggles, i, draws) ==
  IF ~(i < Len(state0.troggles)) THEN [grid |-> grid, troggles |-> newTroggles]
  ELSE
    LET troggle == state0.troggles[i + 1]
        cleared == [grid EXCEPT ![troggle.row + 1][troggle.col + 1].hasTroggle = FALSE]
        difficultyLevel == getDifficultyLevel(state0.currentLevel)
        levelEnemyTypes == getLevelById(state0.currentLevel).parameters.enemyTypes
        enemyType == levelEnemyTypes[(i % Len(levelEnemyTypes)) + 1]
        ai == createEnemyAI(enemyType, difficultyLevel)
        troggleState == [position |-> troggle, type |-> enemyType, ai |-> ai,
                         cooldown |-> 0, path |-> <<>>, index |-> i]
        newPos == calculateNextMove(troggleState, state0, <<>>, draws[i + 1])
    IN LevelTroggleLoop(
         state0,
         [cleared EXCEPT ![newPos.row + 1][newPos.col + 1].hasTroggle = TRUE],
         Append(newTroggles, newPos), i + 1, draws)

\* One iteration of the classic-mode loop.
RECURSIVE ClassicTroggleLoop(_, _, _, _, _)
ClassicTroggleLoop(state0, grid, newTroggles, i, draws) ==
  IF ~(i < Len(state0.troggles)) THEN [grid |-> grid, troggles |-> newTroggles]
  ELSE
    LET troggle == state0.troggles[i + 1]
        GRID_ROWS == Len(state0.grid)
        GRID_COLS == Len(state0.grid[1])
        cleared == [grid EXCEPT ![troggle.row + 1][troggle.col + 1].hasTroggle = FALSE]
        moveAxis == IF LessThanHalf(draws[i + 1][1]) THEN "row" ELSE "col"
        dRow == IF moveAxis = "row" THEN RandInt(0 - 1, 1, draws[i + 1][2]) ELSE 0
        dCol == IF moveAxis = "row" THEN 0 ELSE RandInt(0 - 1, 1, draws[i + 1][2])
        newRow == Max2(0, Min2(GRID_ROWS - 1, troggle.row + dRow))
        newCol == Max2(0, Min2(GRID_COLS - 1, troggle.col + dCol))
    IN ClassicTroggleLoop(
         state0,
         [cleared EXCEPT ![newRow + 1][newCol + 1].hasTroggle = TRUE],
         Append(newTroggles, Pos(newRow, newCol)), i + 1, draws)

\* moveTroggles testing for a collision before the Troggles have moved.
moveTroggles_ChecksBeforeMoving(st, draws) ==
  IF st.gameOver \/ st.gameWon THEN st
  ELSE
    LET moved == IF st.currentLevel # 0
                 THEN LevelTroggleLoop(st, st.grid, <<>>, 0, draws)
                 ELSE ClassicTroggleLoop(st, st.grid, <<>>, 0, draws)
        collision == \E j \in 1..Len(st.troggles) :
                       /\ st.troggles[j].row = st.muncher.row
                       /\ st.troggles[j].col = st.muncher.col
    IN IF collision
       THEN [st EXCEPT !.grid = moved.grid, !.troggles = moved.troggles,
                       !.gameOver = TRUE, !.gameWon = FALSE]
       ELSE [st EXCEPT !.grid = moved.grid, !.troggles = moved.troggles]

moveTroggles(st, draws) ==
  IF st.gameOver \/ st.gameWon THEN st
  ELSE
    LET moved == IF st.currentLevel # 0
                 THEN LevelTroggleLoop(st, st.grid, <<>>, 0, draws)
                 ELSE ClassicTroggleLoop(st, st.grid, <<>>, 0, draws)
        collision == \E j \in 1..Len(moved.troggles) :
                       /\ moved.troggles[j].row = st.muncher.row
                       /\ moved.troggles[j].col = st.muncher.col
    IN IF collision
       THEN [st EXCEPT !.grid = moved.grid, !.troggles = moved.troggles,
                       !.gameOver = TRUE, !.gameWon = FALSE]
       ELSE [st EXCEPT !.grid = moved.grid, !.troggles = moved.troggles]

(***************************************************************************)
(* The countdown callbacks of the two timer effects.                       *)
(***************************************************************************)
\* The classic countdown callback stopping at 0 without ending the game.
ClassicCountdown_StopsSilently(prev) ==
  IF prev.gameOver \/ prev.gameWon THEN prev
  ELSE IF prev.timeLeft <= 1
  THEN [prev EXCEPT !.timeLeft = 0]
  ELSE [prev EXCEPT !.timeLeft = prev.timeLeft - 1]

ClassicCountdown(prev) ==
  IF prev.gameOver \/ prev.gameWon THEN prev
  ELSE IF prev.timeLeft <= 1
  THEN [prev EXCEPT !.gameOver = TRUE, !.timeLeft = 0]
  ELSE [prev EXCEPT !.timeLeft = prev.timeLeft - 1]

LevelCountdown(prev) ==
  IF prev.gameOver \/ prev.gameWon \/ prev.timeLeft <= 0 THEN prev
  ELSE LET newTimeLeft == prev.timeLeft - 1
       IN IF newTimeLeft <= 0
          THEN [prev EXCEPT !.timeLeft = 0, !.gameOver = TRUE]
          ELSE [prev EXCEPT !.timeLeft = newTimeLeft]

(***************************************************************************)
(* The application.  It opens on the menu with the classic GameState that  *)
(* useState built; `state` is the classic atom until a level is selected   *)
(* and the level atom from then on.                                        *)
(***************************************************************************)
NoCall == [status |-> "none"]

Seeds == [seed : 0..(NumSeeds - 1)]

\* One draw for each outcome of randInt(0, RULES.length - 1).
RuleDraws == {(j * Resolution) \div Len(RULES) : j \in 0..(Len(RULES) - 1)}

\* The draws a Troggle's step reads: a coin, then one of the samples.
Coin == {0, Resolution \div 2}
TickDraws(n) == [1..n -> Coin \X Samples]

ArrowKeys == {<<0 - 1, 0>>, <<1, 0>>, <<0, 0 - 1>>, <<0, 1>>}

Init ==
  /\ appMode = "menu"
  /\ \E uRule \in RuleDraws, rnd \in Seeds :
       state = getInitialState(0, 0, uRule, rnd)
  /\ due = "none"
  /\ gen = NoCall

ClassicModeButton ==
  /\ appMode = "menu"
  /\ appMode' = "classicGame"
  /\ due' = "countdown"
  /\ UNCHANGED <<state, gen>>

LevelModeButton ==
  /\ appMode = "menu"
  /\ appMode' = "levelSelect"
  /\ UNCHANGED <<state, due, gen>>

handleLevelSelect ==
  /\ appMode = "levelSelect"
  /\ \E levelId \in LevelIds, rnd \in Seeds :
       state' = initializeLevelGameState(levelId, rnd)
  /\ appMode' = "levelGame"
  /\ due' = "countdown"
  /\ UNCHANGED gen

\* handleKeyDown, classic branch, arrow keys.
ClassicArrowKey ==
  /\ appMode = "classicGame"
  /\ ~state.gameOver
  /\ \E key \in ArrowKeys :
       state' = moveMuncherWithSound(state, key[1], key[2]).nextState
  /\ UNCHANGED <<appMode, due, gen>>

\* handleKeyDown, classic branch, spacebar.
ClassicSpacebar ==
  /\ appMode = "classicGame"
  /\ ~state.gameOver
  /\ state' = muncherEatWithSound(state).nextState
  /\ UNCHANGED <<appMode, due, gen>>

\* handleKeyDown, level branch, arrow keys.
LevelArrowKey ==
  /\ appMode = "levelGame"
  /\ ~state.gameOver /\ ~state.gameWon
  /\ \E key \in ArrowKeys :
       state' = moveMuncherWithSound(state, key[1], key[2]).nextState
  /\ UNCHANGED <<appMode, due, gen>>

\* handleKeyDown, level branch, spacebar.
LevelSpacebarKey ==
  /\ appMode = "levelGame"
  /\ ~state.gameOver /\ ~state.gameWon
  /\ state' = LevelSpacebar(state)
  /\ UNCHANGED <<appMode, due, gen>>

\* The countdown interval of classic mode.
ClassicTimerTick ==
  /\ appMode = "classicGame"
  /\ due = "countdown"
  /\ state' = ClassicCountdown(state)
  /\ due' = "troggles"
  /\ UNCHANGED <<appMode, gen>>

\* The Troggle interval of classic mode.
ClassicTroggleTick ==
  /\ appMode = "classicGame"
  /\ due = "troggles"
  /\ due' = "countdown"
  /\ UNCHANGED <<appMode, gen>>
  /\ \E draws \in TickDraws(Len(state.troggles)) :
       state' = IF state.gameOver THEN state ELSE moveTroggles(state, draws)

\* The countdown interval of level mode.
LevelTimerTick ==
  /\ appMode = "levelGame"
  /\ due = "countdown"
  /\ state' = LevelCountdown(state)
  /\ due' = "troggles"
  /\ UNCHANGED <<appMode, gen>>

\* The Troggle interval of level mode.
LevelTroggleTick ==
  /\ appMode = "levelGame"
  /\ due = "troggles"
  /\ due' = "countdown"
  /\ UNCHANGED <<appMode, gen>>
  /\ \E draws \in TickDraws(Len(state.troggles)) :
       state' = IF state.gameOver THEN state ELSE moveTroggles(state, draws)

Next ==
  \/ ClassicModeButton
  \/ LevelModeButton
  \/ handleLevelSelect
  \/ ClassicArrowKey
  \/ ClassicSpacebar
  \/ LevelArrowKey
  \/ LevelSpacebarKey
  \/ ClassicTimerTick
  \/ ClassicTroggleTick
  \/ LevelTimerTick
  \/ LevelTroggleTick

Spec == Init /\ [][Next]_vars

(***************************************************************************)
(* A call of generateGrid on its own: `gen` is the call, its arguments,    *)
(* the draw stream it reads and, once it has returned, its grid.           *)
(***************************************************************************)
NoGame == [currentLevel |-> 0 - 1]

\* Target numbers generateGrid is called with.
GenTargets == {0, 1, 2, 3, 5, 7, 10, 12, 13, 20}

InitGen ==
  /\ appMode = "menu"
  /\ state = NoGame
  /\ due = "none"
  /\ \E rows \in 3..MaxRows, cols \in 3..MaxCols, j \in 1..Len(RULES),
        targetNumber \in GenTargets, rnd \in Seeds :
        gen = [status |-> "called", rows |-> rows, cols |-> cols,
               rule |-> RULES[j], targetNumber |-> targetNumber, rnd |-> rnd,
               grid |-> <<>>]

Generate ==
  /\ gen.status = "called"
  /\ gen' = [gen EXCEPT !.status = "returned",
                        !.grid = generateGrid(gen.rows, gen.cols, gen.rule,
                                              gen.targetNumber, 0, gen.rnd)]
  /\ UNCHANGED <<appMode, state, due>>

NextGen == Generate

SpecGen == InitGen /\ [][NextGen]_vars

(***************************************************************************)
(* Properties.  A handler applied inside a formula is the handler the      *)
(* actions apply: the formula says what it would do in the state at hand.  *)
(***************************************************************************)
Terminal(st) == st.gameOver \/ st.gameWon

InSession == appMode \in {"classicGame", "levelGame"}

\* The guards of the two keyboard branches of handleKeyDown.
KeyHandled ==
  \/ appMode = "classicGame" /\ ~state.gameOver
  \/ appMode = "levelGame" /\ ~state.gameOver /\ ~state.gameWon

\* The eat handler of the mode the state belongs to.
Eat(st) ==
  IF st.currentLevel # 0 THEN muncherEatWithScoringAndSound(st)
  ELSE muncherEatWithSound(st)

TroggleAt(st, pos) == \E i \in 1..Len(st.troggles) : st.troggles[i] = pos

GridMatchesRule(grid, rule, targetNumber) ==
  \A r \in 1..Len(grid) : \A c \in 1..Len(grid[r]) :
    grid[r][c].isTarget = IsActuallyCorrect(grid[r][c].value, rule, targetNumber)

TargetCount(grid) ==
  Cardinality({rc \in (1..Len(grid)) \X (1..Len(grid[1])) :
                 grid[rc[1]][rc[2]].isTarget})

\* C1: at the start of every session, classic or level, every cell's isTarget
\* equals the rule evaluation of its value under the rule and target number
\* the GameState stores.
C1_StartGridMatchesRule ==
  /\ appMode = "menu" =>
       GridMatchesRule(state.grid, state.rule, state.targetNumber)
  /\ appMode = "levelSelect" =>
       \A levelId \in LevelIds, rnd \in Seeds :
         LET st == initializeLevelGameState(levelId, rnd)
         IN GridMatchesRule(st.grid, st.rule, st.targetNumber)

\* C2: a grid generateGrid returns for rows >= 3 and cols >= 3 has at least
\* 3 target cells, at most 8, and at most rows*cols - 2.
C2_TargetCountInRange ==
  gen.status = "returned" =>
    /\ TargetCount(gen.grid) >= 3
    /\ TargetCount(gen.grid) <= 8
    /\ TargetCount(gen.grid) <= gen.rows * gen.cols - 2

InBounds(st) ==
  /\ isValidPosition(st.muncher, Len(st.grid), Len(st.grid[1]))
  /\ \A i \in 1..Len(st.troggles) :
       isValidPosition(st.troggles[i], Len(st.grid), Len(st.grid[1]))

Clamp(x, n) == Max2(0, Min2(n - 1, x))

\* Where an arrow key takes the Muncher.
Destination(st, key) ==
  Pos(Clamp(st.muncher.row + key[1], Len(st.grid)),
      Clamp(st.muncher.col + key[2], Len(st.grid[1])))

\* C4: in every reachable state the Muncher and every Troggle are inside the
\* grid; an arrow key takes the Muncher to the clamped neighbour, and a tick
\* takes every Troggle, whatever its kind, at most one cell away and never
\* outside the grid.
C4_PositionsInBounds ==
  /\ InBounds(state)
  /\ KeyHandled =>
       \A key \in ArrowKeys :
         moveMuncherWithSound(state, key[1], key[2]).nextState.muncher =
           Destination(state, key)
  /\ (InSession /\ ~Terminal(state)) =>
       \A draws \in TickDraws(Len(state.troggles)) :
         LET next == moveTroggles(state, draws)
         IN /\ InBounds(next)
            /\ Len(next.troggles) = Len(state.troggles)
            /\ \A i \in 1..Len(state.troggles) :
                 Dist(state.troggles[i], next.troggles[i]) <= 1

\* C4 witness: a hunter level after its Troggle tick, the Muncher in the
\* top row (so that ArrowUp clamps) and the Troggle on the border.
C4_Witness ==
  /\ appMode = "levelGame" /\ state.currentLevel = 12
  /\ due = "countdown" /\ state.timeLeft < SessionParameters(12).timeLimit
  /\ state.muncher.row = 0
  /\ Destination(state, <<0 - 1, 0>>) = state.muncher
  /\ \E i \in 1..Len(state.troggles) :
       state.troggles[i].row = Len(state.grid) - 1

\* C5: an arrow key that takes the Muncher into a cell a Troggle occupies
\* completes the move (position and occupancy follow) and leaves gameOver
\* true and gameWon false.
C5_MoveIntoTroggleLoses ==
  KeyHandled =>
    \A key \in ArrowKeys :
      LET dest == Destination(state, key)
          next == moveMuncherWithSound(state, key[1], key[2]).nextState
      IN (dest # state.muncher /\ TroggleAt(state, dest)) =>
           /\ next.muncher = dest
           /\ CellAt(next.grid, dest).hasMuncher
           /\ ~CellAt(next.grid, state.muncher).hasMuncher
           /\ next.gameOver /\ ~next.gameWon

\* C6: in a non-terminal state in which a Troggle's position equals the
\* Muncher's, eat is an immediate loss: gameOver true, gameWon false, score
\* and mistake counter unchanged.
C6_EatOnTroggleLoses ==
  (InSession /\ ~Terminal(state) /\ TroggleAt(state, state.muncher)) =>
    LET next == Eat(state).nextState
    IN /\ next.gameOver /\ ~next.gameWon
       /\ next.score = state.score
       /\ next.incorrectGuesses = state.incorrectGuesses

\* C7: a Troggle tick on a non-terminal state leaves gameOver true if and
\* only if some Troggle's position after all of them have moved equals the
\* Muncher's position.
C7_TickCollisionByFinalPositions ==
  (InSession /\ ~Terminal(state)) =>
    \A draws \in TickDraws(Len(state.troggles)) :
      LET next == moveTroggles(state, draws)
      IN /\ next.muncher = state.muncher
         /\ next.gameOver <=> TroggleAt(next, state.muncher)

\* C7 witness: a tick is due on a running two-Troggle level, and the draws
\* decide whether it ends the game.
C7_Witness ==
  /\ appMode = "levelGame" /\ ~Terminal(state) /\ due = "troggles"
  /\ Len(state.troggles) = 2
  /\ \E draws \in TickDraws(2) : moveTroggles(state, draws).gameOver
  /\ \E draws \in TickDraws(2) : ~moveTroggles(state, draws).gameOver

\* C8: three incorrect eats end the session as a loss whatever the score:
\* a state with three mistakes has gameOver true and gameWon false, and from
\* a running state without mistakes three incorrect eats in a row lead to
\* one, in classic and in level mode.
C8_ThreeMistakesLose ==
  /\ state.incorrectGuesses >= 3 => (state.gameOver /\ ~state.gameWon)
  /\ (InSession /\ ~Terminal(state) /\ state.incorrectGuesses = 0) =>
       LET e1 == Eat(state)
           e2 == Eat(e1.nextState)
           e3 == Eat(e2.nextState)
       IN (/\ e1.didMunch /\ ~e1.correct
           /\ e2.didMunch /\ ~e2.correct
           /\ e3.didMunch /\ ~e3.correct) =>
            /\ e3.nextState.incorrectGuesses = 3
            /\ e3.nextState.gameOver /\ ~e3.nextState.gameWon
            /\ e3.nextState.score = state.score

\* C8 witness: a level session with points on the board and no mistake yet,
\* the Muncher on a cell where three eats in a row are three mistakes.
C8_Witness ==
  /\ appMode = "levelGame" /\ ~Terminal(state)
  /\ state.incorrectGuesses = 0 /\ state.score > 0
  /\ ~Eat(state).correct /\ Eat(state).didMunch
  /\ Eat(Eat(Eat(state).nextState).nextState).nextState.gameOver

\* C9 as stated: two eats in a row on a non-target cell with no Troggle on
\* it leave the score unchanged and increment the mistake counter by one
\* each.
C9_TwoIncorrectEats ==
  (/\ InSession /\ ~Terminal(state)
   /\ ~CellAt(state.grid, state.muncher).isTarget
   /\ ~CellAt(state.grid, state.muncher).hasTroggle
   /\ ~TroggleAt(state, state.muncher)) =>
    LET e1 == Eat(state).nextState
        e2 == Eat(e1).nextState
    IN /\ e1.score = state.score /\ e2.score = state.score
       /\ e1.incorrectGuesses = state.incorrectGuesses + 1
       /\ e2.incorrectGuesses = state.incorrectGuesses + 2

\* C9, amended: each of the two eats leaves the score unchanged; the first
\* increments the mistake counter by one; the second does so too unless the
\* first made the third mistake, which ends the session, and then the second
\* eat changes nothing.
C9_TwoIncorrectEatsWhileRunning ==
  (/\ InSession /\ ~Terminal(state)
   /\ ~CellAt(state.grid, state.muncher).isTarget
   /\ ~CellAt(state.grid, state.muncher).hasTroggle
   /\ ~TroggleAt(state, state.muncher)) =>
    LET e1 == Eat(state).nextState
        e2 == Eat(e1).nextState
    IN /\ e1.score = state.score /\ e2.score = state.score
       /\ e1.incorrectGuesses = state.incorrectGuesses + 1
       /\ IF state.incorrectGuesses < 2
          THEN e2.incorrectGuesses = state.incorrectGuesses + 2
          ELSE e1.gameOver /\ ~Eat(e1).didMunch /\ e2 = e1

\* C9 witness: two mistakes made, the game still running, the Muncher on a
\* non-target cell without a Troggle: the next eat is the third mistake.
C9_Witness ==
  /\ InSession /\ ~Terminal(state)
  /\ ~CellAt(state.grid, state.muncher).isTarget
  /\ ~CellAt(state.grid, state.muncher).hasTroggle
  /\ ~TroggleAt(state, state.muncher)
  /\ state.incorrectGuesses = 2
  /\ Eat(state).nextState.incorrectGuesses = 3

\* No cell other than the Muncher's own has isTarget set.
NoOtherTarget(st) ==
  \A r \in 1..Len(st.grid) : \A c \in 1..Len(st.grid[r]) :
    st.grid[r][c].isTarget => Pos(r - 1, c - 1) = st.muncher

\* C10: a correct eat sets gameWon exactly when it leaves no target cell
\* other than the Muncher's own, and a step that sets gameWon is such an
\* eat: no move, incorrect eat, Troggle tick or countdown tick sets it.
C10_WonExactlyOnLastCorrectEat ==
  /\ [](KeyHandled /\ Eat(state).correct =>
          (Eat(state).nextState.gameWon <=> NoOtherTarget(Eat(state).nextState)))
  /\ [][(~state.gameWon /\ state'.gameWon) =>
          /\ KeyHandled /\ Eat(state).correct
          /\ state'.grid = Eat(state).nextState.grid
          /\ state'.muncher = state.muncher
          /\ NoOtherTarget(state')]_vars

\* C10 witness: a won session, the Muncher on the cell it ate last and no
\* target left anywhere else.
C10_Witness ==
  /\ InSession /\ state.gameWon /\ ~state.gameOver
  /\ CellAt(state.grid, state.muncher).munchedCorrect
  /\ NoOtherTarget(state)

(***************************************************************************)
(* The end-to-end scenario: level 1 on its own 4 x 5 grid (rule multiples, *)
(* target 2, one standard Troggle), the Troggle placed at (0, 0) and the   *)
(* Muncher at (3, 4).  The player steps toward a nearest remaining target  *)
(* and eats it when standing on it; the two intervals run as in any level  *)
(* session.  The player keeps playing (weak fairness of the two player     *)
(* actions); nothing forces the intervals to fire.                         *)
(***************************************************************************)

\* The number of random streams the scenario's grid is generated from.
NumPlaySeeds == 3

PlaySeeds == [seed : 0..(NumPlaySeeds - 1)]

\* The placement draws that put the Muncher on the last free cell and the
\* Troggle on the first.
CornerDraws == <<Resolution - 1, 0>>

ScenarioStart(rnd) ==
  LevelStart(1,
             [generateLevelParameters(LEVELS[1])
                EXCEPT !.timeLimit = Min2(@, MaxTime)],
             rnd, CornerDraws)

RemainingTargets(grid) ==
  {pos \in {Pos(r, c) : r \in 0..(Len(grid) - 1), c \in 0..(Len(grid[1]) - 1)} :
     CellAt(grid, pos).isTarget}

NearestTargets(st) ==
  {t \in RemainingTargets(st.grid) :
     \A o \in RemainingTargets(st.grid) : Dist(st.muncher, t) <= Dist(st.muncher, o)}

InitPlay ==
  /\ appMode = "levelGame"
  /\ \E rnd \in PlaySeeds : state = ScenarioStart(rnd)
  /\ due = "countdown"
  /\ gen = NoCall

\* handleKeyDown, level branch, an arrow key that brings the Muncher closer
\* to a nearest remaining target.
PlayerStep ==
  /\ appMode = "levelGame"
  /\ ~state.gameOver /\ ~state.gameWon
  /\ ~CellAt(state.grid, state.muncher).isTarget
  /\ \E key \in ArrowKeys, t \in NearestTargets(state) :
       /\ Dist(Pos(Max2(0, Min2(Len(state.grid) - 1, state.muncher.row + key[1])),
                   Max2(0, Min2(Len(state.grid[1]) - 1, state.muncher.col + key[2]))),
               t) < Dist(state.muncher, t)
       /\ state' = moveMuncherWithSound(state, key[1], key[2]).nextState
  /\ UNCHANGED <<appMode, due, gen>>

\* handleKeyDown, level branch, spacebar on a remaining target.
PlayerEat ==
  /\ appMode = "levelGame"
  /\ ~state.gameOver /\ ~state.gameWon
  /\ CellAt(state.grid, state.muncher).isTarget
  /\ state' = LevelSpacebar(state)
  /\ UNCHANGED <<appMode, due, gen>>

NextPlay ==
  \/ PlayerStep
  \/ PlayerEat
  \/ LevelTimerTick
  \/ LevelTroggleTick

SpecPlay ==
  InitPlay /\ [][NextPlay]_vars /\ WF_vars(PlayerStep) /\ WF_vars(PlayerEat)

\* C11: in the scenario (4 x 5 grid, multiples of 2, one standard Troggle at
\* (0, 0), Muncher at (3, 4)) the mistake counter never leaves 0 while the
\* player eats remaining targets only, and the session eventually is won
\* with no target cell left, unless a collision or the clock ends it first.
C11_ScenarioEventuallyWon ==
  /\ [](state.incorrectGuesses = 0)
  /\ [](state.gameWon => TargetCount(state.grid) = 0)
  /\ <>(state.gameOver \/ (state.gameWon /\ TargetCount(state.grid) = 0))

C11_Witness ==
  /\ appMode = "levelGame" /\ state.currentLevel = 1
  /\ Len(state.grid) = 4 /\ Len(state.grid[1]) = 5
  /\ state.rule = "multiples" /\ state.targetNumber = 2
  /\ Len(state.troggles) = 1
  /\ state.gameWon /\ ~state.gameOver
  /\ TargetCount(state.grid) = 0
  /\ state.incorrectGuesses = 0
  /\ state.puzzlesSolved >= 2

(***************************************************************************)
(* Objectives.                                                             *)
(***************************************************************************)

IsPrefix(s, t) == Len(s) <= Len(t) /\ SubSeq(t, 1, Len(s)) = s

NoDuplicates(s) == \A i, j \in 1..Len(s) : s[i] = s[j] => i = j

\* C12: throughout a level session the list of completed objectives holds
\* each id at most once, and every transition of the session keeps the ids
\* it held, in place, adding new ones at the end only.
C12_CompletedObjectivesOnlyGrow ==
  /\ [](appMode = "levelGame" => NoDuplicates(state.completedObjectives))
  /\ [][appMode = "levelGame" /\ appMode' = "levelGame"
         => IsPrefix(state.completedObjectives, state'.completedObjectives)]_vars

\* An objective was completed by an early eat, a mistake followed it, and
\* the last eat completed another one.
C12_Witness ==
  /\ appMode = "levelGame"
  /\ Len(state.completedObjectives) = 2
  /\ state.incorrectGuesses >= 1
  /\ state.puzzlesSolved >= 2
  /\ state.gameWon

\* The points of the objectives that st2 holds completed and st does not.
RECURSIVE PointsOf(_, _)
PointsOf(objectives, ids) ==
  IF Len(objectives) = 0 THEN 0
  ELSE (IF InSeq(ids, Head(objectives).id) THEN Head(objectives).points ELSE 0)
         + PointsOf(Tail(objectives), ids)

NewlyCompletedPoints(st, st2) ==
  PointsOf(getLevelById(st.currentLevel).objectives, st2.completedObjectives)
    - PointsOf(getLevelById(st.currentLevel).objectives, st.completedObjectives)

\* What a correct eat that led to st2 scores for the eat itself: the total
\* of the breakdown with no objective points in it.
EatPoints(st2) ==
  getTotalScore(calculateLevelScore(10, getLevelById(st2.currentLevel).objectives,
                                    <<>>, st2.timeLeft, st2.accuracy,
                                    st2.currentStreak, st2.currentLevel))

\* C13: in a level session every transition changes the score by the points
\* of the eat itself (if it is a correct eat) plus the points of the
\* objectives that become completed in that very transition; points of
\* objectives completed earlier are not added again.
C13_ObjectivePointsCreditedOnce ==
  [][appMode = "levelGame" /\ appMode' = "levelGame"
       => state'.score = state.score
                           + (IF state'.puzzlesSolved > state.puzzlesSolved
                              THEN EatPoints(state') ELSE 0)
                           + NewlyCompletedPoints(state, state')]_vars

(***************************************************************************)
(* The scoring functions, applied to arguments drawn from bounded sets.    *)
(* calculateLevelScore and getTotalScore work in doubles; for the base     *)
(* scores and accuracies drawn here every product they floor is far enough *)
(* from an integer, or exactly on it, for integer arithmetic to give the   *)
(* same floor, apart from the difficulty bonus of the basic tier, which    *)
(* calculateLevelScore above computes as the doubles do.                   *)
(***************************************************************************)

MaxStreak == 3
TimeStep == 15
StarScoreMax == 300

ScoreBases == {0, 10, 15, 20}
ScoreAccuracies == {0, 20, 50, 67, 80, 100}
StarScores == {x \in 0..StarScoreMax : x % 15 \in {0, 1, 14}}

\* The clock values of a session of the level: its countdown starts from
\* the limit generateLevelParameters returns.
ClockValues(levelId) ==
  LET start == generateLevelParameters(getLevelById(levelId)).timeLimit
  IN {t \in 0..start : t % TimeStep = 0 \/ t = start}

\* The lists of completed objective ids a session of the level can hold.
CompletedLists(levelId) ==
  LET ids == {getLevelById(levelId).objectives[j].id :
                j \in 1..Len(getLevelById(levelId).objectives)}
  IN {<<>>} \cup {<<x>> : x \in ids}
            \cup {xy \in ids \X ids : xy[1] # xy[2]}

InitScore ==
  /\ appMode = "menu"
  /\ state = NoGame
  /\ due = "none"
  /\ \E levelId \in CatalogIds :
       \/ \E baseScore \in ScoreBases, timeRemaining \in ClockValues(levelId),
             accuracy \in ScoreAccuracies, currentStreak \in 0..MaxStreak,
             completedObjectives \in CompletedLists(levelId) :
             gen = [status |-> "called", fn |-> "calculateLevelScore",
                    baseScore |-> baseScore,
                    completedObjectives |-> completedObjectives,
                    timeRemaining |-> timeRemaining, accuracy |-> accuracy,
                    currentStreak |-> currentStreak, levelId |-> levelId,
                    scoring |-> <<>>, total |-> 0]
       \/ \E score \in StarScores, objectives \in CompletedLists(levelId) :
             gen = [status |-> "called", fn |-> "calculateLevelStars",
                    score |-> score, objectives |-> objectives,
                    levelId |-> levelId, stars |-> 0]

\* calculateLevelScore, then getTotalScore of the breakdown.
ScoreCall ==
  /\ gen.status = "called" /\ gen.fn = "calculateLevelScore"
  /\ LET scoring == calculateLevelScore(
                      gen.baseScore, getLevelById(gen.levelId).objectives,
                      gen.completedObjectives, gen.timeRemaining, gen.accuracy,
                      gen.currentStreak, gen.levelId)
     IN gen' = [gen EXCEPT !.status = "returned", !.scoring = scoring,
                           !.total = getTotalScore(scoring)]
  /\ UNCHANGED <<appMode, state, due>>

StarsCall ==
  /\ gen.status = "called" /\ gen.fn = "calculateLevelStars"
  /\ gen' = [gen EXCEPT !.status = "returned",
                        !.stars = calculateLevelStars(gen.score, gen.objectives,
                                                      getLevelById(gen.levelId))]
  /\ UNCHANGED <<appMode, state, due>>

NextScore == ScoreCall \/ StarsCall

SpecScore == InitScore /\ [][NextScore]_vars

ScoreReturned == gen.status = "returned" /\ gen.fn = "calculateLevelScore"

StarsReturned == gen.status = "returned" /\ gen.fn = "calculateLevelStars"

\* C14: the total of a breakdown is
\* floor((base + timeBonus + difficultyBonus + streakBonus + objectiveBonus)
\* * accuracyMultiplier), where difficultyBonus is floor(base * (tier
\* multiplier - 1)), streakBonus is streak * 10 and accuracyMultiplier is
\* accuracy / 50 clamped to 0.5..2.0; for base 10, 30 seconds left of 60,
\* the basic tier (1.2), streak 3, no completed objective and accuracy 80
\* the total is 70.
C14_TotalOfBreakdown ==
  ScoreReturned =>
    LET tenths == difficultyMultipliers(getLevelById(gen.levelId).category)
        difficultyBonus == (gen.baseScore * (tenths - 10)) \div 10
        streakBonus == gen.currentStreak * 10
        fiftieths == Max2(25, Min2(100, gen.accuracy))
        subtotal == gen.baseScore + gen.scoring.timeBonus + difficultyBonus
                      + streakBonus + gen.scoring.objectiveBonus
    IN /\ gen.scoring.difficultyBonus = difficultyBonus
       /\ gen.scoring.streakBonus = streakBonus
       /\ gen.scoring.accuracyMultiplier = fiftieths
       /\ gen.total = (subtotal * fiftieths) \div 50
       /\ (gen.baseScore = 10 /\ gen.timeRemaining = 30 /\ gen.levelId = 4
             /\ gen.currentStreak = 3 /\ gen.completedObjectives = <<>>
             /\ gen.accuracy = 80)
            => gen.total = 70

\* C15: timeBonus is floor((timeLeft / timeLimit) * base * 0.5), timeLimit
\* being the limit the session's countdown started from, and is at most half
\* of base.
C15_TimeBonusOfSessionLimit ==
  ScoreReturned =>
    LET timeLimit == generateLevelParameters(getLevelById(gen.levelId)).timeLimit
    IN /\ gen.scoring.timeBonus
            = (gen.timeRemaining * gen.baseScore) \div (2 * timeLimit)
       /\ 2 * gen.scoring.timeBonus <= gen.baseScore

\* C16: the star rating is 3 exactly when every bonus objective of the level
\* is completed and the score is at least floor(1.5 * the points of the
\* primary objectives); otherwise it is 2 when a bonus objective is
\* completed and 1 when none is; it is always one of 1, 2, 3.
C16_StarRating ==
  StarsReturned =>
    LET level == getLevelById(gen.levelId)
        bonus == {level.objectives[j].id :
                    j \in {k \in 1..Len(level.objectives) :
                             level.objectives[k].type = "bonus"}}
        completed == {gen.objectives[k] : k \in 1..Len(gen.objectives)}
        primaryPoints ==
          PointsOf(level.objectives,
                   FlattenSeqs([j \in 1..Len(level.objectives) |->
                                  IF level.objectives[j].type = "primary"
                                  THEN <<level.objectives[j].id>> ELSE <<>>]))
        threeStars == bonus \subseteq completed
                        /\ gen.score >= (3 * primaryPoints) \div 2
    IN /\ gen.stars \in 1..3
       /\ gen.stars = 3 <=> threeStars
       /\ ~threeStars =>
            gen.stars = (IF bonus \cap completed # {} THEN 2 ELSE 1)

\* Three stars at exactly the minimum score, and two stars one point below.
C16_Witness ==
  /\ StarsReturned
  /\ gen.levelId = 1
  /\ gen.objectives = <<"no_mistakes", "complete">>
  /\ gen.score = 75
  /\ gen.stars = 3

(***************************************************************************)
(* Troggle movement.                                                       *)
(***************************************************************************)

\* A step of at most one cell along one axis.
OneStep(from, to) ==
  /\ from.row = to.row \/ from.col = to.col
  /\ Abs(from.row - to.row) <= 1
  /\ Abs(from.col - to.col) <= 1

\* C17: a Troggle tick, classic or level, takes every Troggle of every kind
\* to a position that differs from its old one in at most one of row and
\* col, and by at most one cell.
C17_TroggleStepsOneCell ==
  [][(InSession /\ due = "troggles" /\ due' = "countdown")
       => /\ Len(state'.troggles) = Len(state.troggles)
          /\ \A i \in 1..Len(state.troggles) :
               OneStep(state.troggles[i], state'.troggles[i])]_vars

\* Level 9 after its first Troggle tick, in which both Troggles, the
\* standard and the smart one, left the cells they started on.
C17_Witness ==
  /\ appMode = "levelGame" /\ state.currentLevel = 9
  /\ due = "countdown"
  /\ state.timeLeft = SessionParameters(9).timeLimit - 1
  /\ \E rnd \in Seeds :
       LET start == initializeLevelGameState(9, rnd)
       IN \A i \in 1..Len(state.troggles) :
            /\ state.troggles[i] # start.troggles[i]
            /\ OneStep(start.troggles[i], state.troggles[i])

(***************************************************************************)
(* findPath, applied to every start and goal of every open grid of up to   *)
(* MaxPathRows x MaxPathCols cells.                                        *)
(***************************************************************************)

MaxPathRows == 4
MaxPathCols == 4

\* A grid as findPath reads it: its numbers of rows and columns.
OpenGrid(rows, cols) ==
  [r \in 1..rows |-> [c \in 1..cols |-> [hasTroggle |-> FALSE]]]

CellsOf(rows, cols) ==
  {Pos(r, c) : r \in 0..(rows - 1), c \in 0..(cols - 1)}

InitPath ==
  /\ appMode = "menu"
  /\ state = NoGame
  /\ due = "none"
  /\ \E rows \in 1..MaxPathRows, cols \in 1..MaxPathCols :
       \E start \in CellsOf(rows, cols), end \in CellsOf(rows, cols) :
         gen = [status |-> "called", fn |-> "findPath", rows |-> rows,
                cols |-> cols, start |-> start, end |-> end, path |-> <<>>]

FindPathCall ==
  /\ gen.status = "called" /\ gen.fn = "findPath"
  /\ gen' = [gen EXCEPT !.status = "returned",
                        !.path = findPath(gen.start, gen.end,
                                          OpenGrid(gen.rows, gen.cols))]
  /\ UNCHANGED <<appMode, state, due>>

NextPath == FindPathCall

SpecPath == InitPath /\ [][NextPath]_vars

\* C18: on an open grid the path findPath returns from A to B has exactly
\* |row difference| + |col difference| steps, every step is a cell of the
\* grid 4-adjacent to the one before it (the first to A), and the last step
\* is B.
C18_FindPathIsShortest ==
  (gen.status = "returned" /\ gen.fn = "findPath") =>
    /\ Len(gen.path) = Abs(gen.start.row - gen.end.row)
                         + Abs(gen.start.col - gen.end.col)
    /\ \A k \in 1..Len(gen.path) :
         /\ gen.path[k] \in CellsOf(gen.rows, gen.cols)
         /\ LET before == IF k = 1 THEN gen.start ELSE gen.path[k - 1]
            IN Abs(before.row - gen.path[k].row)
                 + Abs(before.col - gen.path[k].col) = 1
    /\ Len(gen.path) > 0 => gen.path[Len(gen.path)] = gen.end

\* A path between opposite corners of a grid with both dimensions above 2.
C18_Witness ==
  /\ gen.status = "returned" /\ gen.fn = "findPath"
  /\ gen.rows >= 3 /\ gen.cols >= 3
  /\ gen.start = Pos(gen.rows - 1, 0) /\ gen.end = Pos(0, gen.cols - 1)
  /\ Len(gen.path) = gen.rows + gen.cols - 2

\* The kind and the speed of Troggle i (from 1) of a level session, as the
\* level loop of moveTroggles derives them.
KindOf(st, i) ==
  LET levelEnemyTypes == getLevelById(st.currentLevel).parameters.enemyTypes
  IN levelEnemyTypes[((i - 1) % Len(levelEnemyTypes)) + 1]

SpeedOf(st, i) ==
  createEnemyAI(KindOf(st, i), getDifficultyLevel(st.currentLevel)).speed

InitHunt ==
  /\ appMode = "levelGame"
  /\ \E rnd \in Seeds : state = initializeLevelGameState(14, rnd)
  /\ due = "countdown"
  /\ gen = NoCall

NextHunt ==
  \/ LevelArrowKey
  \/ LevelSpacebarKey
  \/ LevelTimerTick
  \/ LevelTroggleTick

SpecHunt == InitHunt /\ [][NextHunt]_vars

\* The cells of `among` nearest to `from`.
NearestOf(among, from) ==
  {c \in among : \A o \in among : Dist(from, c) <= Dist(from, o)}

\* The four cells orthogonally adjacent to the Muncher that no hunter other
\* than Troggle i stands on.
FreeAround(st, i) ==
  {c \in {Pos(st.muncher.row + Directions[j].row,
              st.muncher.col + Directions[j].col) : j \in 1..4} :
     \A h \in 1..Len(st.troggles) :
       (h # i /\ KindOf(st, h) = "hunter") => st.troggles[h] # c}

requirements(id) ==
  CASE id = 1 -> [minScore |-> 0, previousLevel |-> 0]
    [] id = 4 -> [minScore |-> 80, previousLevel |-> 3]
    [] id = 7 -> [minScore |-> 150, previousLevel |-> 6]
    [] id = 9 -> [minScore |-> 200, previousLevel |-> 8]

ShippedIds == {1, 4, 7, 9}

\* existingSave when the argument is left out.
NoSave == [levelProgress |-> <<>>, playerStats |-> [absent |-> TRUE]]

\* isLevelUnlocked that does not look at the score.
isLevelUnlocked_IgnoresScore(levelId, completedLevels, playerStats) ==
  IF levelId \notin ShippedIds THEN FALSE
  ELSE IF levelId = 1 THEN TRUE
  ELSE requirements(levelId).previousLevel \in completedLevels

isLevelUnlocked(levelId, completedLevels, playerStats) ==
  IF levelId \notin ShippedIds THEN FALSE
  ELSE IF levelId = 1 THEN TRUE
  ELSE IF requirements(levelId).previousLevel \notin completedLevels THEN FALSE
  ELSE IF "totalScore" \in DOMAIN playerStats
            /\ playerStats.totalScore < requirements(levelId).minScore
       THEN FALSE
  ELSE TRUE

\* initializeLevelGameState with its two early returns; NoGame stands for
\* null.
initializeLevelGameStateOrNull(levelId, existingSave, rnd) ==
  IF levelId \notin ShippedIds THEN NoGame
  ELSE LET completedLevels == DOMAIN existingSave.levelProgress
       IN IF ~isLevelUnlocked(levelId, completedLevels, existingSave.playerStats)
          THEN NoGame
          ELSE initializeLevelGameState(levelId, rnd)

\* Level ids a caller may ask for: the shipped ones and two that no level
\* has.
AskedIds == ShippedIds \cup {0, 99}

SaveScores == {0, 79, 80, 149, 150, 199, 200, 500}

\* The save data: progress entries for some of the levels that precede the
\* shipped ones, and a total score.
SaveDatas ==
  {NoSave} \cup
  {[levelProgress |-> [id \in done |-> [levelId |-> id, completed |-> TRUE]],
    playerStats |-> [totalScore |-> totalScore]] :
     done \in SUBSET {1, 3, 6, 8}, totalScore \in SaveScores}

InitUnlock ==
  /\ appMode = "levelSelect"
  /\ state = NoGame
  /\ due = "none"
  /\ \E levelId \in AskedIds, existingSave \in SaveDatas, rnd \in Seeds :
       gen = [status |-> "called", fn |-> "initializeLevelGameState",
              levelId |-> levelId, existingSave |-> existingSave, rnd |-> rnd]

\* handleLevelSelect with the save data loadSaveData returned.
SelectCall ==
  /\ gen.status = "called" /\ gen.fn = "initializeLevelGameState"
  /\ LET levelState == initializeLevelGameStateOrNull(gen.levelId,
                                                      gen.existingSave, gen.rnd)
     IN /\ state' = levelState
        /\ appMode' = IF levelState # NoGame THEN "levelGame" ELSE appMode
        /\ due' = IF levelState # NoGame THEN "countdown" ELSE due
  /\ gen' = [gen EXCEPT !.status = "returned"]

NextUnlock == SelectCall

SpecUnlock == InitUnlock /\ [][NextUnlock]_vars

UnlockReturned ==
  gen.status = "returned" /\ gen.fn = "initializeLevelGameState"

SessionSummary(finalState) == finalState.session

LevelWon == appMode = "levelGame" /\ state.gameWon

\* C22: the session summary handed to persistence on level completion
\* reflects the final live state: finalScore is the score, accuracy the
\* state's accuracy, the completed objective ids the state's completed
\* objectives, mistakes the mistake counter and timeRemaining the clock.
C22_SummaryReflectsFinalState ==
  LevelWon =>
    LET summary == SessionSummary(state)
    IN /\ summary.finalScore = state.score
       /\ summary.accuracy = state.accuracy
       /\ summary.objectivesCompleted = state.completedObjectives
       /\ summary.mistakes = state.incorrectGuesses
       /\ summary.timeRemaining = state.timeLeft

(***************************************************************************)
(* The life of the level-mode intervals.  The countdown interval and the   *)
(* Troggle interval are created and cleared by two effects; an effect runs *)
(* again, clearing the interval of its last run first, only when one of    *)
(* its dependencies changed in the render.  gen.sessions counts the level  *)
(* sessions started so far, the live one being the last; countdownFor and  *)
(* trogglesFor name the session whose start or change created the running *)
(* interval, 0 when there is none.                                         *)
(***************************************************************************)
MaxSessions == 2

RetryLevels == {1}

\* levelGameState?.gameOver and levelGameState?.gameWon as dependencies.
OptFlag(st, field) ==
  IF st = NoGame THEN "undefined" ELSE IF st[field] THEN "true" ELSE "false"

\* The level game timer effect.
LevelTimerEffect(mode0, st0, mode1, st1, timer, session) ==
  IF <<mode0, OptFlag(st0, "gameOver"), OptFlag(st0, "gameWon")>>
       = <<mode1, OptFlag(st1, "gameOver"), OptFlag(st1, "gameWon")>>
  THEN timer
  ELSE IF mode1 # "levelGame" \/ st1 = NoGame THEN 0
  ELSE IF st1.gameOver \/ st1.gameWon THEN 0
  ELSE session

\* The level Troggle effect.
LevelTroggleEffect(mode0, st0, mode1, st1, timer, session) ==
  IF <<mode0, OptFlag(st0, "gameOver")>> = <<mode1, OptFlag(st1, "gameOver")>>
  THEN timer
  ELSE IF mode1 # "levelGame" \/ st1 = NoGame THEN 0
  ELSE IF st1.gameOver THEN 0
  ELSE session

\* A render: the new atoms, and the two effects run on them.
Render(mode1, st1, sessions1, completion1) ==
  /\ appMode' = mode1
  /\ state' = st1
  /\ gen' = [status |-> "timers", sessions |-> sessions1,
             showLevelCompletion |-> completion1,
             countdownFor |-> LevelTimerEffect(appMode, state, mode1, st1,
                                               gen.countdownFor, sessions1),
             trogglesFor |-> LevelTroggleEffect(appMode, state, mode1, st1,
                                                gen.trogglesFor, sessions1)]

InitRetry ==
  /\ appMode = "menu"
  /\ state = NoGame
  /\ due = "countdown"
  /\ gen = [status |-> "timers", sessions |-> 0, showLevelCompletion |-> FALSE,
            countdownFor |-> 0, trogglesFor |-> 0]

\* A new session of the level, as the three retry and select handlers start
\* it.
StartSession(levelId) ==
  /\ gen.sessions < MaxSessions
  /\ levelId \in RetryLevels
  /\ \E rnd \in Seeds :
       Render("levelGame",
              initializeLevelGameStateOrNull(levelId, NoSave, rnd),
              gen.sessions + 1, FALSE)
  /\ UNCHANGED due

RetrySelect ==
  /\ appMode = "levelSelect"
  /\ \E levelId \in RetryLevels : StartSession(levelId)

\* The "Retry Level" button of a lost session.
RetryLevelButton ==
  /\ appMode = "levelGame"
  /\ state.gameOver /\ ~state.gameWon
  /\ StartSession(state.currentLevel)

\* The "Continue" button of a won session; it shows the completion screen.
handleLevelComplete ==
  /\ appMode = "levelGame"
  /\ state.gameWon
  /\ ~gen.showLevelCompletion
  /\ Render(appMode, state, gen.sessions, TRUE)
  /\ UNCHANGED due

handleCompletionRetry ==
  /\ appMode = "levelGame"
  /\ gen.showLevelCompletion
  /\ StartSession(state.currentLevel)

handleCompletionContinue ==
  /\ appMode = "levelGame"
  /\ gen.showLevelCompletion
  /\ Render("levelSelect", NoGame, gen.sessions, FALSE)
  /\ UNCHANGED due

\* The "Menu" button of the level header and the "Back to Menu" button of a
\* lost session.
handleBackToMenu ==
  /\ appMode = "levelGame"
  /\ Render("menu", NoGame, gen.sessions, gen.showLevelCompletion)
  /\ UNCHANGED due

RetryArrowKey ==
  /\ appMode = "levelGame"
  /\ ~state.gameOver /\ ~state.gameWon
  /\ \E key \in ArrowKeys :
       Render(appMode, moveMuncherWithSound(state, key[1], key[2]).nextState,
              gen.sessions, gen.showLevelCompletion)
  /\ UNCHANGED due

RetrySpacebarKey ==
  /\ appMode = "levelGame"
  /\ ~state.gameOver /\ ~state.gameWon
  /\ Render(appMode, LevelSpacebar(state), gen.sessions,
            gen.showLevelCompletion)
  /\ UNCHANGED due

\* The callback of the countdown interval.
CountdownFires ==
  /\ gen.countdownFor # 0
  /\ due = "countdown" \/ gen.trogglesFor = 0
  /\ Render(appMode, LevelCountdown(state), gen.sessions,
            gen.showLevelCompletion)
  /\ due' = "troggles"

\* The callback of the Troggle interval.
TrogglesFire ==
  /\ gen.trogglesFor # 0
  /\ due = "troggles" \/ gen.countdownFor = 0
  /\ \E draws \in TickDraws(Len(state.troggles)) :
       Render(appMode,
              IF state.gameOver THEN state ELSE moveTroggles(state, draws),
              gen.sessions, gen.showLevelCompletion)
  /\ due' = "countdown"

NextRetry ==
  \/ LevelModeButton
  \/ RetrySelect
  \/ RetryLevelButton
  \/ handleLevelComplete
  \/ handleCompletionRetry
  \/ handleCompletionContinue
  \/ handleBackToMenu
  \/ RetryArrowKey
  \/ RetrySpacebarKey
  \/ CountdownFires
  \/ TrogglesFire

SpecRetry == InitRetry /\ [][NextRetry]_vars

\* C23: after a session is discarded by retry or return-to-menu, no interval
\* callback created for the discarded session changes the state of a session
\* that is live afterwards: a callback that changes the live state belongs
\* to an interval created for the live session.
C23_NoStaleCallback ==
  [][/\ (CountdownFires /\ state' # state) => gen.countdownFor = gen.sessions
     /\ (TrogglesFire /\ state' # state) => gen.trogglesFor = gen.sessions]_vars

(***************************************************************************)
(* Sharing.  Every transition function builds its result as a shallow copy *)
(* { ...state } of its argument, so the result's session is the very       *)
(* object the argument holds: a write through the result's session is a    *)
(* write to the argument's.  The other fields a transition writes (grid,   *)
(* muncher, troggles, the counters) are fresh in the copy.                 *)
(***************************************************************************)

\* The object a transition was given, as it is after the call that returned
\* nextState.
ArgumentAfter(st, nextState) == [st EXCEPT !.session = nextState.session]

\* A transition's result for the argument st leaves st as it was, and a
\* second call with the same object returns an equal result.
Repeatable(st, first, second) ==
  /\ ArgumentAfter(st, first) = st
  /\ second = first

\* C24: every transition function (move, eat, Troggle tick, countdown tick)
\* leaves the state it was given unmodified, the nested session record
\* included, and applying it twice to the same previous state gives equal
\* results.
C24_TransitionsLeaveTheirArgument ==
  appMode = "levelGame" =>
    /\ \A key \in ArrowKeys :
         LET first == moveMuncherWithSound(state, key[1], key[2]).nextState
             given == ArgumentAfter(state, first)
         IN Repeatable(state, first,
                       moveMuncherWithSound(given, key[1], key[2]).nextState)
    /\ LET first == LevelSpacebar(state)
           given == ArgumentAfter(state, first)
       IN Repeatable(state, first, LevelSpacebar(given))
    /\ \A draws \in TickDraws(Len(state.troggles)) :
         LET first == moveTroggles(state, draws)
             given == ArgumentAfter(state, first)
         IN Repeatable(state, first, moveTroggles(given, draws))
    /\ LET first == LevelCountdown(state)
           given == ArgumentAfter(state, first)
       IN Repeatable(state, first, LevelCountdown(given))

(***************************************************************************)
(* Grid generation on degenerate input.                                    *)
(***************************************************************************)
GridReturned == gen.status = "returned" /\ "grid" \in DOMAIN gen

\* A full rows x cols grid: every row is there, every cell holds a value.
FullGrid(grid, rows, cols) ==
  /\ Len(grid) = rows
  /\ \A r \in 1..rows :
       /\ Len(grid[r]) = cols
       /\ \A c \in 1..cols : grid[r][c].value.k \in {"num", "add", "sub"}

\* C25: for every rule, every target number and every grid of at least 3x3
\* generateGrid returns a full rows x cols grid; a correct pool with too few
\* values does not surface as a failure to the caller.
C25_GenerateGridReturnsFullGrid ==
  GridReturned => FullGrid(gen.grid, gen.rows, gen.cols)

\* A call whose correct pool has fewer than 3 values: the factors of 7.
C25_Witness ==
  /\ GridReturned
  /\ gen.rule = "factors" /\ gen.targetNumber = 7
  /\ Len(generateCorrectValues(gen.rule, gen.targetNumber)) < 3
  /\ FullGrid(gen.grid, gen.rows, gen.cols)

(***************************************************************************)
(* generateIncorrectValues as a function of the rule, the target number    *)
(* and the draws.                                                          *)
(***************************************************************************)
InitPool ==
  /\ appMode = "menu"
  /\ state = NoGame
  /\ due = "none"
  /\ \E j \in 1..Len(RULES), targetNumber \in GenTargets, rnd \in PlaySeeds :
       gen = [status |-> "called", fn |-> "generateIncorrectValues",
              rule |-> RULES[j], targetNumber |-> targetNumber, rnd |-> rnd,
              pool |-> <<>>]

PoolCall ==
  /\ gen.status = "called" /\ gen.fn = "generateIncorrectValues"
  /\ gen' = [gen EXCEPT !.status = "returned",
                        !.pool = generateIncorrectValues(gen.rule,
                                                         gen.targetNumber,
                                                         gen.rnd)]
  /\ UNCHANGED <<appMode, state, due>>

NextPool == PoolCall

SpecPool == InitPool /\ [][NextPool]_vars

\* C26: for every rule and target number and every outcome of the draws, no
\* value of the pool generateIncorrectValues returns satisfies the rule.
C26_IncorrectPoolExcludesCorrect ==
  (gen.status = "returned" /\ gen.fn = "generateIncorrectValues") =>
    \A j \in 1..Len(gen.pool) :
      ~IsActuallyCorrect(gen.pool[j], gen.rule, gen.targetNumber)

(***************************************************************************)
(* The retries of generateGrid.  The draws of getAlternativeTarget are     *)
(* listed one by one: draw 9 gives the alternative target 7 to the factors *)
(* and multiples rules, draw 0 gives 6.  7 has two factors, 6 has four.    *)
(***************************************************************************)
AltTargets == {0, 7, 12, 29}

\* The streams whose first k alternative-target draws are 9 and whose other
\* draws are 0.
AltStreams ==
  {[seed |-> 0, retry |-> [i \in 1..11 |-> IF i <= k THEN 9 ELSE 0]] :
     k \in 0..11}

InitAlt ==
  /\ appMode = "menu"
  /\ state = NoGame
  /\ due = "none"
  /\ \E rows \in 3..MaxRows, cols \in 3..MaxCols, j \in 1..Len(RULES),
        targetNumber \in AltTargets, rnd \in AltStreams :
       gen = [status |-> "called", rows |-> rows, cols |-> cols,
              rule |-> RULES[j], targetNumber |-> targetNumber, rnd |-> rnd,
              grid |-> <<>>]

SpecAlt == InitAlt /\ [][NextGen]_vars

\* The targets generateGrid tries: the requested one, then the alternative
\* target of each retry.
TriedTarget(j) ==
  IF j = 0 THEN gen.targetNumber
  ELSE getAlternativeTarget(gen.rule, U(gen.rnd, 1, j - 1))

\* The tries whose correct pool has at least 3 values.
EnoughValues ==
  {j \in 0..10 : Len(generateCorrectValues(gen.rule, TriedTarget(j))) >= 3}

FlaggedBy(grid, rule, targetNumber) ==
  \A r \in 1..Len(grid) : \A c \in 1..Len(grid[r]) :
    grid[r][c].isTarget = shouldBeTarget(grid[r][c].value, rule, targetNumber)

\* C27: when the correct pool of the requested rule and target has fewer
\* than 3 values generateGrid retries with an alternative target, up to 10
\* times: the grid is generated for the first of the requested target and
\* the 10 alternative targets whose pool has 3 values, and under the primes
\* rule when none has.
C27_RetriesThenPrimes ==
  GridReturned =>
    IF EnoughValues = {}
    THEN /\ FlaggedBy(gen.grid, "primes", 0)
         /\ TargetCount(gen.grid) >= 3
    ELSE LET first == CHOOSE j \in EnoughValues :
                        \A k \in EnoughValues : j <= k
         IN /\ FlaggedBy(gen.grid, gen.rule, TriedTarget(first))
            /\ TargetCount(gen.grid) >= 3
            /\ \A r \in 1..gen.rows : \A c \in 1..gen.cols :
                 gen.grid[r][c].isTarget =>
                   InSeq(generateCorrectValues(gen.rule, TriedTarget(first)),
                         gen.grid[r][c].value)

\* The factors of 7 asked for, and 7 drawn as each of the 10 alternative
\* targets: the grid is one of the primes rule.
C27_Witness ==
  /\ GridReturned
  /\ gen.rule = "factors" /\ gen.targetNumber = 7
  /\ "retry" \in DOMAIN gen.rnd
  /\ \A j \in 1..10 : TriedTarget(j) = 7
  /\ EnoughValues = {}
  /\ FlaggedBy(gen.grid, "primes", 0)
  /\ ~FlaggedBy(gen.grid, "factors", 7)

(***************************************************************************)
(* Session starts: getInitialState for each rule and each corner draw, and *)
(* the placement of initializeLevelGameState for each number of Troggles   *)
(* up to one more than the grid has room for.                              *)
(***************************************************************************)
NumCornerSeeds == 4
MaxEnemies == 9

CornerSeeds == [seed : 0..(NumCornerSeeds - 1)]

InitPlace ==
  /\ appMode = "menu"
  /\ state = NoGame
  /\ due = "none"
  /\ \/ \E uRule \in RuleDraws, rnd \in CornerSeeds :
          gen = [status |-> "called", fn |-> "getInitialState",
                 uRule |-> uRule, rnd |-> rnd]
     \/ \E enemyCount \in 0..MaxEnemies, rnd \in Seeds :
          \E place \in [1..(enemyCount + 1) -> Coin] :
            gen = [status |-> "called", fn |-> "initializeLevelGameState",
                   enemyCount |-> enemyCount, rnd |-> rnd, place |-> place]

ClassicStart ==
  /\ gen.status = "called" /\ gen.fn = "getInitialState"
  /\ state' = getInitialState(0, 0, gen.uRule, gen.rnd)
  /\ gen' = [gen EXCEPT !.status = "returned"]
  /\ UNCHANGED <<appMode, due>>

\* A start of level 1 with the given number of Troggles.
LevelPlacement ==
  /\ gen.status = "called" /\ gen.fn = "initializeLevelGameState"
  /\ state' = LevelStart(1, [SessionParameters(1) EXCEPT
                               !.enemyCount = gen.enemyCount],
                         gen.rnd, gen.place)
  /\ gen' = [gen EXCEPT !.status = "returned"]
  /\ UNCHANGED <<appMode, due>>

NextPlace == ClassicStart \/ LevelPlacement

SpecPlace == InitPlace /\ [][NextPlace]_vars

\* The cells of the Muncher and the Troggles, the Muncher's first.
Occupied(st) == <<st.muncher>> \o st.troggles

PairwiseDistinct(cells) ==
  \A i, j \in 1..Len(cells) : i # j => cells[i] # cells[j]

\* C28: in every session-start state the Muncher and all Troggles are on
\* pairwise distinct cells: on diagonally opposite corners in classic mode,
\* and in level mode, whenever enemyCount + 1 <= rows * cols, each on a cell
\* that was unoccupied when it was placed.
C28_StartCellsDistinct ==
  gen.status = "returned" =>
    LET rows == Len(state.grid)
        cols == Len(state.grid[1])
    IN /\ gen.fn = "getInitialState" =>
            /\ Len(state.troggles) = 1
            /\ state.muncher.row \in {0, rows - 1}
            /\ state.muncher.col \in {0, cols - 1}
            /\ state.troggles[1] = Pos(rows - 1 - state.muncher.row,
                                       cols - 1 - state.muncher.col)
            /\ PairwiseDistinct(Occupied(state))
       /\ (gen.fn = "initializeLevelGameState"
             /\ gen.enemyCount + 1 <= rows * cols) =>
            /\ Len(state.troggles) = gen.enemyCount
            /\ PairwiseDistinct(Occupied(state))
            /\ \A i \in 1..Len(state.troggles) :
                 /\ state.troggles[i].row \in 0..(rows - 1)
                 /\ state.troggles[i].col \in 0..(cols - 1)
                 /\ CellAt(state.grid, state.troggles[i]).hasTroggle
                 /\ ~CellAt(state.grid, state.troggles[i]).hasMuncher

\* A level start that fills the grid: one Muncher and rows * cols - 1
\* Troggles.
C28_Witness ==
  /\ gen.status = "returned"
  /\ gen.fn = "initializeLevelGameState"
  /\ gen.enemyCount + 1 = Len(state.grid) * Len(state.grid[1])
  /\ Len(state.troggles) = gen.enemyCount
  /\ PairwiseDistinct(Occupied(state))

(***************************************************************************)
(* Incorrect eats.                                                         *)
(***************************************************************************)

\* C29: an incorrect eat resets the streak to zero, increments the mistake
\* counter by one and, when the eaten cell was flagged isTarget although its
\* value does not satisfy the rule, clears that cell's flag; the mistake
\* counter never exceeds 3 and a state whose counter is 3 has gameOver true.
C29_IncorrectEat ==
  InSession =>
    /\ state.incorrectGuesses <= 3
    /\ state.incorrectGuesses = 3 => state.gameOver
    /\ appMode = "levelGame" => state.session.mistakes = state.incorrectGuesses
    /\ (Eat(state).didMunch /\ ~Eat(state).correct) =>
         LET nextState == Eat(state).nextState
             cell == CellAt(state.grid, state.muncher)
         IN /\ nextState.currentStreak = 0
            /\ nextState.incorrectGuesses = state.incorrectGuesses + 1
            /\ nextState.session.mistakes =
                 IF appMode = "levelGame" THEN state.session.mistakes + 1
                 ELSE state.session.mistakes
            /\ ~CellAt(nextState.grid, state.muncher).isTarget
            /\ \A r \in 1..Len(state.grid) : \A c \in 1..Len(state.grid[r]) :
                 Pos(r - 1, c - 1) # state.muncher =>
                   nextState.grid[r][c] = state.grid[r][c]

\* A level session with a streak running and the Muncher on a cell whose
\* eat is a mistake.
C29_Witness ==
  /\ appMode = "levelGame"
  /\ state.currentStreak > 0
  /\ Eat(state).didMunch /\ ~Eat(state).correct
  /\ Eat(state).nextState.currentStreak = 0
  /\ Eat(state).nextState.incorrectGuesses = state.incorrectGuesses + 1

(***************************************************************************)
(* Occupancy flags.                                                        *)
(***************************************************************************)

\* C30: in every reachable state, after any sequence of moves and Troggle
\* ticks with any number of Troggles, a cell has its hasTroggle flag set
\* exactly when some Troggle of the state's Troggle list is at that cell.
C30_TroggleFlagMatchesList ==
  InSession =>
    \A r \in 1..Len(state.grid) : \A c \in 1..Len(state.grid[r]) :
      state.grid[r][c].hasTroggle <=> TroggleAt(state, Pos(r - 1, c - 1))

(***************************************************************************)
(* The Muncher's occupancy flag.                                           *)
(***************************************************************************)
MuncherCells(st) ==
  {rc \in (1..Len(st.grid)) \X (1..Len(st.grid[1])) :
     st.grid[rc[1]][rc[2]].hasMuncher}

\* C31: in every reachable state exactly one grid cell has hasMuncher set,
\* and it is the cell at the state's Muncher position.
C31_OneMuncherCell ==
  (appMode \in {"menu", "classicGame", "levelGame"}) =>
    MuncherCells(state) = {<<state.muncher.row + 1, state.muncher.col + 1>>}

\* A session in which the Muncher has moved and eaten: it stands on a cell it
\* ate, with the flag there and nowhere else.
C31_Witness ==
  /\ InSession
  /\ CellAt(state.grid, state.muncher).munchedCorrect
  /\ state.incorrectGuesses > 0
  /\ MuncherCells(state) = {<<state.muncher.row + 1, state.muncher.col + 1>>}

(***************************************************************************)
(* Terminal states.                                                        *)
(***************************************************************************)

\* C32: in every reachable state of a classic or level session gameOver and
\* gameWon are never both true.
C32_NotWonAndOver ==
  InSession => ~(state.gameOver /\ state.gameWon)

\* C33: once a GameState has gameOver or gameWon set, every directional
\* move, eat, Troggle tick and countdown tick leaves it unchanged.
C33_TerminalStateFrozen ==
  [][(InSession /\ Terminal(state)) => state' = state]_vars

\* calculateAccuracy of the level game state module: the rounded percentage
\* of correct eats among all eats, and 100 when there were none.
calculateAccuracy(correct, incorrect) ==
  LET total == correct + incorrect
  IN IF total = 0 THEN 100 ELSE RoundPercent(correct, total)

\* C34: in every reachable level-mode state, accuracy equals
\* round(100 * correct eats / (correct eats + incorrect eats)), and 100 when
\* nothing has been eaten yet.
C34_AccuracyIsCurrent ==
  (appMode = "levelGame" /\ InSession) =>
    state.accuracy =
      calculateAccuracy(state.puzzlesSolved, state.session.mistakes)

\* The objectives with condition noMistakes of the level of a state that are
\* in its completed-objective list.
CompletedNoMistakes(st) ==
  LET objectives == getLevelById(st.currentLevel).objectives
  IN {j \in 1..Len(objectives) :
        /\ objectives[j].condition = "noMistakes"
        /\ InSeq(st.completedObjectives, objectives[j].id)}

\* C35: in every won level state, if an objective with condition noMistakes
\* is in the completed-objective set then the mistake counter is 0.
C35_NoMistakesMeansNoMistakes ==
  (appMode = "levelGame" /\ state.gameWon /\ CompletedNoMistakes(state) # {})
    => state.incorrectGuesses = 0

(***************************************************************************)
(* The application with its timers running: setInterval keeps calling the  *)
(* countdown callback and the Troggle callback of the mode the app is in   *)
(* for as long as their effects are mounted, whatever the player does.     *)
(*                                                                         *)
(* TroggleIntervalFires is a firing of the Troggle interval.  The steps of *)
(* Next that hand the turn from the Troggle interval back to the countdown *)
(* are exactly the steps of ClassicTroggleTick and LevelTroggleTick, and   *)
(* one of the two can fire whenever a session has the Troggles' turn, so   *)
(* weak fairness of TroggleIntervalFires is weak fairness of the Troggle   *)
(* interval; its first disjunct lets enabledness be decided from the turn  *)
(* alone, without running the enemies' moves.                              *)
(***************************************************************************)
TroggleIntervalFires ==
  /\ InSession
  /\ due = "troggles"
  /\ due' = "countdown"
  /\ UNCHANGED <<appMode, gen>>
  /\ \/ state' = state
     \/ ClassicTroggleTick
     \/ LevelTroggleTick

SpecTimers ==
  /\ Init
  /\ [][Next]_vars
  /\ WF_vars(ClassicTimerTick)
  /\ WF_vars(LevelTimerTick)
  /\ WF_vars(TroggleIntervalFires)

\* A step of the one-second countdown interval.
CountdownStep == InSession /\ due = "countdown" /\ due' = "troggles"

\* C36: in every classic or level session, if the countdown tick keeps
\* firing, a terminal state (gameWon or gameOver) is eventually reached;
\* timeLeft decreases by one per tick in a non-terminal state, never goes
\* below 0, and the tick that brings it to 0 sets gameOver.
C36_CountdownEndsTheSession ==
  /\ InSession ~> (InSession /\ Terminal(state))
  /\ [](InSession => state.timeLeft >= 0)
  /\ [][(CountdownStep /\ ~Terminal(state)) =>
          /\ state'.timeLeft = state.timeLeft - 1
          /\ (state'.timeLeft = 0 => state'.gameOver)]_vars

C36_Witness ==
  /\ InSession
  /\ due = "troggles"
  /\ state.timeLeft = 0
  /\ state.gameOver
  /\ ~state.gameWon
  /\ state.incorrectGuesses = 0

(***************************************************************************)
(* The application with both of its games.  `state` is the classic atom,   *)
(* as in App, and `gen` holds App's other atoms: levelGameState (NoGame    *)
(* for null), started, showGameOverPopup and gameOverTimeoutId (whether a  *)
(* timeout is pending), and whether the classic countdown (timer) and the  *)
(* classic Troggle interval (interval) are mounted.  Every handler ends    *)
(* with the effects its state changes trigger.  The player presses at most *)
(* MaxKeys keys, counted in keys.                                          *)
(***************************************************************************)
ModeLevels == {1}

\* The classic states getInitialState builds in this specification: one
\* rule, every seed.
ModeStarts == {getInitialState(0, 0, 0, rnd) : rnd \in Seeds}

MaxKeys == 2

\* The level countdown and Troggle effects mount their intervals by these
\* conditions, which are among their dependencies.
LevelRunning(mode, level) ==
  mode = "levelGame" /\ level # NoGame /\ ~level.gameOver /\ ~level.gameWon

LevelTrogglesRunning(mode, level) ==
  mode = "levelGame" /\ level # NoGame /\ ~level.gameOver

\* The effects that follow a handler which leaves the classic atom state1
\* and the atoms atoms1: the two classic intervals depend on started alone
\* and read the classic atom when they mount; the game-over effect shows the
\* popup and arms the timeout.
Effects(state1, atoms1) ==
  LET startedChanged == atoms1.started # gen.started
      depsChanged == \/ startedChanged
                     \/ state1.gameOver # state.gameOver
                     \/ state1.gameWon # state.gameWon
                     \/ state1.score # state.score
                     \/ state1.puzzlesSolved # state.puzzlesSolved
      over == atoms1.started /\ state1.gameOver /\ ~state1.gameWon
  IN [atoms1 EXCEPT
        !.timer = IF startedChanged
                  THEN atoms1.started /\ ~state1.gameOver /\ ~state1.gameWon
                  ELSE @,
        !.interval = IF startedChanged
                     THEN atoms1.started /\ ~state1.gameOver
                     ELSE @,
        !.showGameOverPopup = IF depsChanged /\ over THEN TRUE ELSE @,
        !.gameOverTimeoutId = IF depsChanged /\ over THEN TRUE ELSE @]

InitModes ==
  /\ appMode = "menu"
  /\ state \in ModeStarts
  /\ due = "none"
  /\ gen = [levelGameState |-> NoGame, started |-> FALSE,
            showGameOverPopup |-> FALSE, gameOverTimeoutId |-> FALSE,
            timer |-> FALSE, interval |-> FALSE, keys |-> 0]

\* The Level Mode button of the menu.
AppLevelModeButton ==
  /\ appMode = "menu"
  /\ appMode' = "levelSelect"
  /\ UNCHANGED <<state, due, gen>>

\* The Classic Mode button of the menu.
AppClassicModeButton ==
  /\ appMode = "menu"
  /\ appMode' = "classicGame"
  /\ gen' = Effects(state, [gen EXCEPT !.started = TRUE])
  /\ UNCHANGED <<state, due>>

\* The Start New Session button of the classic start screen.
AppStartNewSession ==
  /\ appMode = "classicGame"
  /\ ~gen.started
  /\ gen' = Effects(state, [gen EXCEPT !.started = TRUE])
  /\ UNCHANGED <<appMode, state, due>>

AppLevelSelect ==
  /\ appMode = "levelSelect"
  /\ appMode' = "levelGame"
  /\ \E levelId \in ModeLevels, rnd \in Seeds :
       gen' = Effects(state,
                [gen EXCEPT
                   !.levelGameState = initializeLevelGameState(levelId, rnd),
                   !.started = TRUE])
  /\ UNCHANGED <<state, due>>

AppBackToMenu ==
  /\ \/ appMode \in {"levelSelect", "levelGame"}
     \/ appMode = "classicGame" /\ ~gen.started
  /\ appMode' = "menu"
  /\ gen' = Effects(state, [gen EXCEPT !.started = FALSE,
                                       !.levelGameState = NoGame])
  /\ UNCHANGED <<state, due>>

\* handleGameOverSkip, and the callback of the game-over timeout.
GameOverReset(fresh, atoms) ==
  /\ state' = fresh
  /\ gen' = Effects(fresh, [atoms EXCEPT !.showGameOverPopup = FALSE,
                                       !.started = FALSE,
                                       !.gameOverTimeoutId = FALSE])
  /\ UNCHANGED <<appMode, due>>

\* handleKeyDown on the spacebar: the popup first, then the level branch,
\* then the classic branch.
AppSpacebarKey ==
  /\ gen.keys < MaxKeys
  /\ LET pressed == [gen EXCEPT !.keys = @ + 1]
     IN IF gen.showGameOverPopup
        THEN \E fresh \in ModeStarts : GameOverReset(fresh, pressed)
        ELSE IF LevelRunning(appMode, gen.levelGameState)
        THEN /\ gen' = Effects(state,
                          [pressed EXCEPT
                             !.levelGameState = LevelSpacebar(@)])
             /\ UNCHANGED <<appMode, state, due>>
        ELSE /\ gen.started
             /\ ~state.gameOver
             /\ state' = muncherEatWithSound(state).nextState
             /\ gen' = Effects(state', pressed)
             /\ UNCHANGED <<appMode, due>>

\* handleKeyDown on an arrow key: the level branch, then the classic branch.
AppArrowKey ==
  /\ gen.keys < MaxKeys
  /\ \E key \in ArrowKeys :
       LET pressed == [gen EXCEPT !.keys = @ + 1]
       IN IF LevelRunning(appMode, gen.levelGameState)
          THEN /\ gen' = Effects(state,
                            [pressed EXCEPT !.levelGameState =
                               moveMuncherWithSound(@, key[1], key[2]).nextState])
               /\ UNCHANGED <<appMode, state, due>>
          ELSE /\ gen.started
               /\ ~state.gameOver
               /\ state' = moveMuncherWithSound(state, key[1], key[2]).nextState
               /\ gen' = Effects(state', pressed)
               /\ UNCHANGED <<appMode, due>>

\* The classic countdown interval, mounted while started.
AppCountdown ==
  /\ gen.timer
  /\ state' = ClassicCountdown(state)
  /\ gen' = Effects(state', gen)
  /\ UNCHANGED <<appMode, due>>

\* The classic Troggle interval, mounted while started.
AppTroggles ==
  /\ gen.interval
  /\ \E draws \in TickDraws(Len(state.troggles)) :
       state' = IF state.gameOver THEN state ELSE moveTroggles(state, draws)
  /\ gen' = Effects(state', gen)
  /\ UNCHANGED <<appMode, due>>

AppLevelCountdown ==
  /\ LevelRunning(appMode, gen.levelGameState)
  /\ gen' = [gen EXCEPT !.levelGameState = LevelCountdown(@)]
  /\ UNCHANGED <<appMode, state, due>>

AppLevelTroggles ==
  /\ LevelTrogglesRunning(appMode, gen.levelGameState)
  /\ \E draws \in TickDraws(Len(gen.levelGameState.troggles)) :
       gen' = [gen EXCEPT !.levelGameState = moveTroggles(@, draws)]
  /\ UNCHANGED <<appMode, state, due>>

\* The timeout the game-over effect arms.
AppGameOverTimeout ==
  /\ gen.gameOverTimeoutId
  /\ \E fresh \in ModeStarts : GameOverReset(fresh, gen)

NextModes ==
  \/ AppLevelModeButton
  \/ AppClassicModeButton
  \/ AppStartNewSession
  \/ AppLevelSelect
  \/ AppBackToMenu
  \/ AppSpacebarKey
  \/ AppArrowKey
  \/ AppCountdown
  \/ AppTroggles
  \/ AppLevelCountdown
  \/ AppLevelTroggles
  \/ AppGameOverTimeout

SpecModes == InitModes /\ [][NextModes]_vars

\* A step taken inside level mode without a key press: a firing of one of
\* the intervals or of the game-over timeout.
TimerInLevelMode ==
  /\ appMode = "levelGame"
  /\ appMode' = "levelGame"
  /\ gen'.keys = gen.keys

\* C37: while the app is in level mode, the classic-mode GameState is not
\* changed by any timer: its timeLeft, Troggle positions and gameOver flag
\* stay as they were when level mode was entered.
C37_TimersLeaveClassicState ==
  [][TimerInLevelMode =>
       /\ state'.timeLeft = state.timeLeft
       /\ state'.troggles = state.troggles
       /\ state'.gameOver = state.gameOver]_vars

\* C38: in level mode, every eat input (spacebar) received while the level
\* state is non-terminal is applied to the level state; it is never consumed
\* by the classic game-over popup handling.
C38_LevelEatIsApplied ==
  [][(AppSpacebarKey /\ LevelRunning(appMode, gen.levelGameState)) =>
       gen'.levelGameState = LevelSpacebar(gen.levelGameState)]_vars
====
